---- MODULE Spec2Model ----
(***************************************************************************)
(* A model of the asynchronous call engine of grpc-rs:                     *)
(*   - the reentrant SpinLock of src/async/lock.rs            (SpecLock)   *)
(*   - the embedded task executor of src/task/executor.rs     (SpecExec)   *)
(*   - the batch promise, ShareCall, StreamingBase and the server sinks    *)
(*     of src/async/promise.rs, src/call/mod.rs, src/call/server.rs        *)
(*                                                             (SpecCall)  *)
(* Each part has its own variables; a specification moves the variables of *)
(* its own part and leaves the others at their initial values.             *)
(***************************************************************************)
EXTENDS Integers, Sequences, FiniteSets, TLC

(***************************************************************************)
(* Part 1: SpinLock (src/async/lock.rs)                                    *)
(***************************************************************************)

\* Bounds of the lock model.
NumThreads == 2
MaxDepth == 2
MaxCalls == 3

Threads == 1..NumThreads

\* Option<Ownership> = None
NoOwner == 0

VARIABLES
    lock,       \* SpinLock.lock: the AtomicBool flag
    owner,      \* SpinLock.handle.1: Ownership.owner, NoOwner when None
    holders,    \* SpinLock.handle.1: Ownership.holders (0 when None)
    lpc,        \* per thread: where it is inside lock() or LockGuard::drop()
    guards,     \* per thread: the LockGuards it holds (returned, not yet dropped)
    calls,      \* per thread: lock() calls made so far (bounded by MaxCalls)
    lockPanic,  \* a thread panicked in drop (unwrap of None, usize underflow)
    spun        \* per thread: its current (or last) lock() went round the loop

lvars == <<lock, owner, holders, lpc, guards, calls, lockPanic, spun>>

LockInit ==
    /\ lock = FALSE
    /\ owner = NoOwner
    /\ holders = 0
    /\ lpc = [t \in Threads |-> "idle"]
    /\ guards = [t \in Threads |-> 0]
    /\ calls = [t \in Threads |-> 0]
    /\ lockPanic = FALSE
    /\ spun = [t \in Threads |-> FALSE]

\* A thread calls SpinLock::lock.
LockCall(t) ==
    /\ lpc[t] = "idle"
    /\ guards[t] < MaxDepth
    /\ calls[t] < MaxCalls
    /\ lpc' = [lpc EXCEPT ![t] = "lk_spin"]
    /\ calls' = [calls EXCEPT ![t] = @ + 1]
    /\ spun' = [spun EXCEPT ![t] = FALSE]
    /\ UNCHANGED <<lock, owner, holders, guards, lockPanic>>

\* while self.lock.swap(true) {}: one swap; it leaves the loop when the
\* previous value was false.
LockSwap(t) ==
    /\ lpc[t] = "lk_spin"
    /\ lock' = TRUE
    /\ lpc' = [lpc EXCEPT ![t] = IF lock THEN "lk_spin" ELSE "lk_crit"]
    /\ UNCHANGED <<owner, holders, guards, calls, lockPanic, spun>>

\* The mutant of LockCheck: a lock that is not reentrant (the owner is not
\* compared with the current thread).
LockCheckNoReentry(t) ==
    /\ lpc[t] = "lk_crit"
    /\ IF owner = NoOwner
          THEN /\ owner' = t
               /\ holders' = 1
               /\ lpc' = [lpc EXCEPT ![t] = "lk_ret"]
          ELSE /\ lpc' = [lpc EXCEPT ![t] = "lk_retry"]
               /\ UNCHANGED <<owner, holders>>
    /\ UNCHANGED <<lock, guards, calls, lockPanic, spun>>

\* The mutant of LockCheck: the owner is not compared, every thread enters.
LockCheckAnyOwner(t) ==
    /\ lpc[t] = "lk_crit"
    /\ IF owner = NoOwner
          THEN /\ owner' = t
               /\ holders' = 1
          ELSE /\ holders' = holders + 1
               /\ UNCHANGED owner
    /\ lpc' = [lpc EXCEPT ![t] = "lk_ret"]
    /\ UNCHANGED <<lock, guards, calls, lockPanic, spun>>

\* The mutant of LockCheck: the reentrant lock() does not count the new guard.
LockCheckForgetsCount(t) ==
    /\ lpc[t] = "lk_crit"
    /\ IF owner = NoOwner
          THEN /\ owner' = t
               /\ holders' = 1
               /\ lpc' = [lpc EXCEPT ![t] = "lk_ret"]
          ELSE IF owner = t
                  THEN /\ lpc' = [lpc EXCEPT ![t] = "lk_ret"]
                       /\ UNCHANGED <<owner, holders>>
                  ELSE /\ lpc' = [lpc EXCEPT ![t] = "lk_retry"]
                       /\ UNCHANGED <<owner, holders>>
    /\ UNCHANGED <<lock, guards, calls, lockPanic, spun>>

\* match handle.1 { None => take ownership, Some(o) => reenter if o.owner is
\* the current thread, else fall through to the retry }.
LockCheck(t) ==
    /\ lpc[t] = "lk_crit"
    /\ IF owner = NoOwner
          THEN /\ owner' = t
               /\ holders' = 1
               /\ lpc' = [lpc EXCEPT ![t] = "lk_ret"]
          ELSE IF owner = t
                  THEN /\ holders' = holders + 1
                       /\ lpc' = [lpc EXCEPT ![t] = "lk_ret"]
                       /\ UNCHANGED owner
                  ELSE /\ lpc' = [lpc EXCEPT ![t] = "lk_retry"]
                       /\ UNCHANGED <<owner, holders>>
    /\ UNCHANGED <<lock, guards, calls, lockPanic, spun>>

\* self.lock.swap(false); return LockGuard { inner: self }
LockReturn(t) ==
    /\ lpc[t] = "lk_ret"
    /\ lock' = FALSE
    /\ guards' = [guards EXCEPT ![t] = @ + 1]
    /\ lpc' = [lpc EXCEPT ![t] = "idle"]
    /\ UNCHANGED <<owner, holders, calls, lockPanic, spun>>

\* The mutant of LockRetry: the flag is left set when the loop goes round.
LockRetryKeepsFlag(t) ==
    /\ lpc[t] = "lk_retry"
    /\ lpc' = [lpc EXCEPT ![t] = "lk_spin"]
    /\ spun' = [spun EXCEPT ![t] = TRUE]
    /\ UNCHANGED <<lock, owner, holders, guards, calls, lockPanic>>

\* self.lock.swap(false) at the end of the loop body: go round again.
LockRetry(t) ==
    /\ lpc[t] = "lk_retry"
    /\ lock' = FALSE
    /\ lpc' = [lpc EXCEPT ![t] = "lk_spin"]
    /\ spun' = [spun EXCEPT ![t] = TRUE]
    /\ UNCHANGED <<owner, holders, guards, calls, lockPanic>>

\* A thread drops one of its guards: LockGuard::drop starts.
DropCall(t) ==
    /\ lpc[t] = "idle"
    /\ guards[t] > 0
    /\ guards' = [guards EXCEPT ![t] = @ - 1]
    /\ lpc' = [lpc EXCEPT ![t] = "dr_spin"]
    /\ UNCHANGED <<lock, owner, holders, calls, lockPanic, spun>>

\* while self.inner.lock.swap(true) {}
DropSwap(t) ==
    /\ lpc[t] = "dr_spin"
    /\ lock' = TRUE
    /\ lpc' = [lpc EXCEPT ![t] = IF lock THEN "dr_spin" ELSE "dr_crit"]
    /\ UNCHANGED <<owner, holders, guards, calls, lockPanic, spun>>

\* The mutant of DropCrit: the ownership is cleared by every drop, also by
\* the drop of an inner guard.
DropCritAlwaysCleans(t) ==
    /\ lpc[t] = "dr_crit"
    /\ owner' = NoOwner
    /\ holders' = 0
    /\ lpc' = [lpc EXCEPT ![t] = "dr_rel"]
    /\ UNCHANGED <<lock, guards, calls, lockPanic, spun>>

\* ownership.holders -= 1; if it is 0, h.1.take().  unwrap() of None and the
\* underflow of holders panic.
DropCrit(t) ==
    /\ lpc[t] = "dr_crit"
    /\ IF owner = NoOwner \/ holders = 0
          THEN /\ lockPanic' = TRUE
               /\ lpc' = [lpc EXCEPT ![t] = "panicked"]
               /\ UNCHANGED <<owner, holders>>
          ELSE /\ holders' = holders - 1
               /\ owner' = IF holders - 1 = 0 THEN NoOwner ELSE owner
               /\ lpc' = [lpc EXCEPT ![t] = "dr_rel"]
               /\ UNCHANGED lockPanic
    /\ UNCHANGED <<lock, guards, calls, spun>>

\* self.inner.lock.swap(false): drop returns.
DropRelease(t) ==
    /\ lpc[t] = "dr_rel"
    /\ lock' = FALSE
    /\ lpc' = [lpc EXCEPT ![t] = "idle"]
    /\ UNCHANGED <<owner, holders, guards, calls, lockPanic, spun>>

(***************************************************************************)
(* Part 2: the embedded task executor (src/task/executor.rs)               *)
(***************************************************************************)

\* The states of a SpawnTask.
NOTIFIED == 1
IDLE == 2
POLLING == 3
COMPLETED == 4

\* Bound of the executor model: the wakeups (work queue entries, kicked
\* tags) that can be pending at a time.
MaxPending == 2

\* The threads: the poller thread of the completion queue, a thread that
\* spawns (when spawn is not called on the poller thread) and another thread
\* that holds a waker of the task.
CqThread == "cq"
ExecThreads == {"cq", "sp", "ext"}
OtherThreads == ExecThreads \ {CqThread}

VARIABLES
    estate,     \* SpawnTask.state
    handle,     \* SpawnTask.handle is Some (the future is still there)
    spawner,    \* the thread that called Executor::spawn
    ppc,        \* per thread: where it is inside poll()
    initState,  \* per thread: poll()'s local init_state
    npc,        \* per thread: where it is inside Notify::notify
    cqpc,       \* the poller thread: waiting in cq.next(), or handling an event
    workq,      \* WorkQueue: the UnfinishedWork entries pushed for the task
    kicked,     \* the CallTag::Spawn tags in the completion queue
    everPolled, \* the future has been polled (its wakers exist)
    owed,       \* a wakeup was marked since the last poll started
    epanic      \* a thread panicked ("unexpected state", unwrap of None)

evars == <<estate, handle, spawner, ppc, initState, npc, cqpc, workq, kicked,
           everPolled, owed, epanic>>

\* The mutant of ExecInit: spawn marks the task NOTIFIED and defers the first
\* poll to the poller.
ExecInitDeferred ==
    /\ estate = NOTIFIED
    /\ handle = TRUE
    /\ spawner \in {"cq", "sp"}
    /\ ppc = [t \in ExecThreads |-> "none"]
    /\ initState = [t \in ExecThreads |-> IDLE]
    /\ npc = [t \in ExecThreads |-> "none"]
    /\ cqpc = IF spawner = CqThread THEN "handle" ELSE "wait"
    /\ workq = IF spawner = CqThread THEN 1 ELSE 0
    /\ kicked = IF spawner = CqThread THEN 0 ELSE 1
    /\ everPolled = FALSE
    /\ owed = TRUE
    /\ epanic = FALSE

\* Executor::spawn has made the task (SpawnTask::new: IDLE, handle Some) and
\* calls poll(cq, task, false) on the spawning thread.
ExecInit ==
    /\ estate = IDLE
    /\ handle = TRUE
    /\ spawner \in {"cq", "sp"}
    /\ ppc = [t \in ExecThreads |-> IF t = spawner THEN "p_cas" ELSE "none"]
    /\ initState = [t \in ExecThreads |-> IDLE]
    /\ npc = [t \in ExecThreads |-> "none"]
    /\ cqpc = IF spawner = CqThread THEN "handle" ELSE "wait"
    /\ workq = 0
    /\ kicked = 0
    /\ everPolled = FALSE
    /\ owed = FALSE
    /\ epanic = FALSE

\* The future is being polled by thread t.
InPoll(t) == ppc[t] = "p_fut"

\* The mutant of PollCas: the poll starts whatever the state is.
PollCasNoCheck(t) ==
    /\ ppc[t] = "p_cas"
    /\ npc[t] = "none"
    /\ IF estate = COMPLETED
          THEN /\ ppc' = [ppc EXCEPT ![t] = "none"]
               /\ UNCHANGED <<estate, everPolled, owed>>
          ELSE /\ estate' = POLLING
               /\ ppc' = [ppc EXCEPT ![t] = "p_fut"]
               /\ everPolled' = TRUE
               /\ owed' = FALSE
    /\ UNCHANGED <<handle, spawner, initState, npc, cqpc, workq, kicked, epanic>>

\* poll(): compare_exchange(init_state, POLLING); Err(COMPLETED) returns, any
\* other state panics; on success the future is polled (unwrap of the handle).
PollCas(t) ==
    /\ ppc[t] = "p_cas"
    /\ npc[t] = "none"
    /\ IF estate = initState[t]
          THEN /\ estate' = POLLING
               /\ IF handle
                     THEN /\ ppc' = [ppc EXCEPT ![t] = "p_fut"]
                          /\ everPolled' = TRUE
                          /\ owed' = FALSE
                          /\ UNCHANGED epanic
                     ELSE /\ ppc' = [ppc EXCEPT ![t] = "panicked"]
                          /\ epanic' = TRUE
                          /\ UNCHANGED <<everPolled, owed>>
          ELSE IF estate = COMPLETED
                  THEN /\ ppc' = [ppc EXCEPT ![t] = "none"]
                       /\ UNCHANGED <<estate, everPolled, owed, epanic>>
                  ELSE /\ ppc' = [ppc EXCEPT ![t] = "panicked"]
                       /\ epanic' = TRUE
                       /\ UNCHANGED <<estate, everPolled, owed>>
    /\ UNCHANGED <<handle, spawner, initState, npc, cqpc, workq, kicked>>

\* The future, while it is polled, wakes its own task (task.notify() on the
\* polling thread).
SelfNotify(t) ==
    /\ InPoll(t)
    /\ npc[t] = "none"
    /\ npc' = [npc EXCEPT ![t] = "mn1"]
    /\ UNCHANGED <<estate, handle, spawner, ppc, initState, cqpc, workq, kicked,
                   everPolled, owed, epanic>>

\* poll_future_notify returns Err(_) or Ok(Async::Ready(_)).
PollReturnReady(t) ==
    /\ InPoll(t)
    /\ npc[t] = "none"
    /\ ppc' = [ppc EXCEPT ![t] = "p_ready"]
    /\ UNCHANGED <<estate, handle, spawner, initState, npc, cqpc, workq, kicked,
                   everPolled, owed, epanic>>

\* poll_future_notify returns Ok(Async::NotReady).
PollReturnNotReady(t) ==
    /\ InPoll(t)
    /\ npc[t] = "none"
    /\ ppc' = [ppc EXCEPT ![t] = "p_nr"]
    /\ UNCHANGED <<estate, handle, spawner, initState, npc, cqpc, workq, kicked,
                   everPolled, owed, epanic>>

\* The mutant of PollStoreCompleted: the state is not stored.
PollForgetsCompleted(t) ==
    /\ ppc[t] = "p_ready"
    /\ ppc' = [ppc EXCEPT ![t] = "p_take"]
    /\ UNCHANGED <<estate, handle, spawner, initState, npc, cqpc, workq, kicked,
                   everPolled, owed, epanic>>

\* task.state.store(COMPLETED)
PollStoreCompleted(t) ==
    /\ ppc[t] = "p_ready"
    /\ estate' = COMPLETED
    /\ ppc' = [ppc EXCEPT ![t] = "p_take"]
    /\ UNCHANGED <<handle, spawner, initState, npc, cqpc, workq, kicked,
                   everPolled, owed, epanic>>

\* task.handle.take(); the loop goes round (and returns on Err(COMPLETED)).
PollTakeHandle(t) ==
    /\ ppc[t] = "p_take"
    /\ handle' = FALSE
    /\ ppc' = [ppc EXCEPT ![t] = "p_cas"]
    /\ UNCHANGED <<estate, spawner, initState, npc, cqpc, workq, kicked,
                   everPolled, owed, epanic>>

\* The mutant of PollNotReady: the state is stored IDLE whatever it is (a
\* wakeup marked during the poll is lost).
PollNotReadyStoreIdle(t) ==
    /\ ppc[t] = "p_nr"
    /\ estate' = IDLE
    /\ ppc' = [ppc EXCEPT ![t] = "none"]
    /\ UNCHANGED <<handle, spawner, initState, npc, cqpc, workq, kicked,
                   everPolled, owed, epanic>>

\* The mutant of PollNotReady: the loop polls again also when the task was
\* not notified during the poll.
PollNotReadyAlwaysRepoll(t) ==
    /\ ppc[t] = "p_nr"
    /\ estate' = NOTIFIED
    /\ initState' = [initState EXCEPT ![t] = NOTIFIED]
    /\ ppc' = [ppc EXCEPT ![t] = "p_cas"]
    /\ UNCHANGED <<handle, spawner, npc, cqpc, workq, kicked,
                   everPolled, owed, epanic>>

\* The mutant of PollNotReady: the loop ends also when the task was notified
\* during the poll.
PollNotReadyLeavesNotified(t) ==
    /\ ppc[t] = "p_nr"
    /\ IF estate = POLLING
          THEN /\ estate' = IDLE
               /\ ppc' = [ppc EXCEPT ![t] = "none"]
               /\ UNCHANGED <<initState, epanic>>
          ELSE IF estate = NOTIFIED
                  THEN /\ ppc' = [ppc EXCEPT ![t] = "none"]
                       /\ UNCHANGED <<estate, initState, epanic>>
                  ELSE /\ ppc' = [ppc EXCEPT ![t] = "panicked"]
                       /\ epanic' = TRUE
                       /\ UNCHANGED <<estate, initState>>
    /\ UNCHANGED <<handle, spawner, npc, cqpc, workq, kicked, everPolled, owed>>

\* compare_exchange(POLLING, IDLE): Ok returns, Err(NOTIFIED) sets init_state
\* and goes round the loop, any other state panics.
PollNotReady(t) ==
    /\ ppc[t] = "p_nr"
    /\ IF estate = POLLING
          THEN /\ estate' = IDLE
               /\ ppc' = [ppc EXCEPT ![t] = "none"]
               /\ UNCHANGED <<initState, epanic>>
          ELSE IF estate = NOTIFIED
                  THEN /\ initState' = [initState EXCEPT ![t] = NOTIFIED]
                       /\ ppc' = [ppc EXCEPT ![t] = "p_cas"]
                       /\ UNCHANGED <<estate, epanic>>
                  ELSE /\ ppc' = [ppc EXCEPT ![t] = "panicked"]
                       /\ epanic' = TRUE
                       /\ UNCHANGED <<estate, initState>>
    /\ UNCHANGED <<handle, spawner, npc, cqpc, workq, kicked, everPolled, owed>>

\* A thread other than the poller wakes the task through a waker it holds.
NotifyCall(t) ==
    /\ t \in OtherThreads
    /\ everPolled
    /\ ppc[t] = "none"
    /\ npc[t] = "none"
    /\ npc' = [npc EXCEPT ![t] = "mn1"]
    /\ UNCHANGED <<estate, handle, spawner, ppc, initState, cqpc, workq, kicked,
                   everPolled, owed, epanic>>

\* The mutant of MarkNotified1: a task that is POLLING is marked and the
\* wakeup is scheduled (mark_notified returns true).
MarkNotified1SchedulesPolling(t) ==
    /\ npc[t] = "mn1"
    /\ IF estate \in {IDLE, POLLING}
          THEN /\ estate' = NOTIFIED
               /\ npc' = [npc EXCEPT ![t] = "sched"]
               /\ owed' = TRUE
          ELSE /\ npc' = [npc EXCEPT ![t] = "none"]
               /\ owed' = (owed \/ estate = NOTIFIED)
               /\ UNCHANGED estate
    /\ UNCHANGED <<handle, spawner, ppc, initState, cqpc, workq, kicked,
                   everPolled, epanic>>

\* The mutant of MarkNotified1: a task that is NOTIFIED already is scheduled
\* again (mark_notified returns true).
MarkNotified1Reschedules(t) ==
    /\ npc[t] = "mn1"
    /\ IF estate \in {IDLE, NOTIFIED}
          THEN /\ estate' = NOTIFIED
               /\ npc' = [npc EXCEPT ![t] = "sched"]
               /\ owed' = TRUE
          ELSE IF estate = POLLING
                  THEN /\ npc' = [npc EXCEPT ![t] = "mn2"]
                       /\ UNCHANGED <<estate, owed>>
                  ELSE /\ npc' = [npc EXCEPT ![t] = "none"]
                       /\ UNCHANGED <<estate, owed>>
    /\ UNCHANGED <<handle, spawner, ppc, initState, cqpc, workq, kicked,
                   everPolled, epanic>>

\* mark_notified: compare_exchange_weak(IDLE, NOTIFIED): Ok returns true,
\* Err(POLLING) tries the second exchange, Err(IDLE) (a spurious failure) goes
\* round, any other state returns false.
MarkNotified1(t) ==
    /\ npc[t] = "mn1"
    /\ IF estate = IDLE
          THEN /\ estate' = NOTIFIED
               /\ npc' = [npc EXCEPT ![t] = "sched"]
               /\ owed' = TRUE
          ELSE IF estate = POLLING
                  THEN /\ npc' = [npc EXCEPT ![t] = "mn2"]
                       /\ UNCHANGED <<estate, owed>>
                  ELSE /\ npc' = [npc EXCEPT ![t] = "none"]
                       /\ owed' = (owed \/ estate = NOTIFIED)
                       /\ UNCHANGED estate
    /\ UNCHANGED <<handle, spawner, ppc, initState, cqpc, workq, kicked,
                   everPolled, epanic>>

\* The mutant of MarkNotified2: marking a task that is POLLING returns true
\* and the wakeup is scheduled.
MarkNotified2Schedules(t) ==
    /\ npc[t] = "mn2"
    /\ IF estate = POLLING
          THEN /\ estate' = NOTIFIED
               /\ npc' = [npc EXCEPT ![t] = "sched"]
               /\ owed' = TRUE
          ELSE IF estate = IDLE
                  THEN /\ npc' = [npc EXCEPT ![t] = "mn1"]
                       /\ UNCHANGED <<estate, owed>>
                  ELSE /\ npc' = [npc EXCEPT ![t] = "none"]
                       /\ owed' = (owed \/ estate = NOTIFIED)
                       /\ UNCHANGED estate
    /\ UNCHANGED <<handle, spawner, ppc, initState, cqpc, workq, kicked,
                   everPolled, epanic>>

\* mark_notified: compare_exchange_weak(POLLING, NOTIFIED): Ok returns false
\* (the poll in progress polls again), Err(IDLE) goes round, any other state
\* returns false.
MarkNotified2(t) ==
    /\ npc[t] = "mn2"
    /\ IF estate = POLLING
          THEN /\ estate' = NOTIFIED
               /\ npc' = [npc EXCEPT ![t] = "none"]
               /\ owed' = TRUE
          ELSE IF estate = IDLE
                  THEN /\ npc' = [npc EXCEPT ![t] = "mn1"]
                       /\ UNCHANGED <<estate, owed>>
                  ELSE /\ npc' = [npc EXCEPT ![t] = "none"]
                       /\ owed' = (owed \/ estate = NOTIFIED)
                       /\ UNCHANGED estate
    /\ UNCHANGED <<handle, spawner, ppc, initState, cqpc, workq, kicked,
                   everPolled, epanic>>

\* compare_exchange_weak(POLLING, NOTIFIED) fails spuriously: Err(POLLING)
\* goes round the loop.
MarkNotified2Spurious(t) ==
    /\ npc[t] = "mn2"
    /\ estate = POLLING
    /\ npc' = [npc EXCEPT ![t] = "mn1"]
    /\ UNCHANGED <<estate, handle, spawner, ppc, initState, cqpc, workq, kicked,
                   everPolled, owed, epanic>>

\* WorkQueue::push_work: on the queue's own thread the work is queued, on any
\* other thread it is handed back.
PushWork(t) == t = CqThread

\* The mutant of NotifySchedule: notify polls the future itself.
NotifyPollsInline(t) ==
    /\ npc[t] = "sched"
    /\ ppc[t] = "none"
    /\ npc' = [npc EXCEPT ![t] = "none"]
    /\ ppc' = [ppc EXCEPT ![t] = "p_cas"]
    /\ initState' = [initState EXCEPT ![t] = NOTIFIED]
    /\ UNCHANGED <<estate, handle, spawner, cqpc, workq, kicked,
                   everPolled, owed, epanic>>

\* The mutant of NotifySchedule: the completion queue is kicked on every
\* thread.
NotifyScheduleAlwaysKicks(t) ==
    /\ npc[t] = "sched"
    /\ kicked < MaxPending
    /\ kicked' = kicked + 1
    /\ UNCHANGED workq
    /\ npc' = [npc EXCEPT ![t] = "none"]
    /\ UNCHANGED <<estate, handle, spawner, ppc, initState, cqpc,
                   everPolled, owed, epanic>>

\* notify after mark_notified returned true: push_work, or kick the
\* completion queue with a CallTag::Spawn.
NotifySchedule(t) ==
    /\ npc[t] = "sched"
    /\ IF PushWork(t)
          THEN /\ workq < MaxPending
               /\ workq' = workq + 1
               /\ UNCHANGED kicked
          ELSE /\ kicked < MaxPending
               /\ kicked' = kicked + 1
               /\ UNCHANGED workq
    /\ npc' = [npc EXCEPT ![t] = "none"]
    /\ UNCHANGED <<estate, handle, spawner, ppc, initState, cqpc,
                   everPolled, owed, epanic>>

\* poll_queue: cq.next() returns a CallTag::Spawn; resolve calls
\* poll(cq, task, true).
CqTakeSpawn ==
    /\ cqpc = "wait"
    /\ kicked > 0
    /\ kicked' = kicked - 1
    /\ cqpc' = "handle"
    /\ ppc' = [ppc EXCEPT ![CqThread] = "p_cas"]
    /\ initState' = [initState EXCEPT ![CqThread] = NOTIFIED]
    /\ UNCHANGED <<estate, handle, spawner, npc, workq, everPolled, owed, epanic>>

\* poll_queue: cq.next() returns the tag of a batch the future waits for;
\* resolving it wakes the task on the poller thread.
CqTakeBatch ==
    /\ cqpc = "wait"
    /\ everPolled
    /\ cqpc' = "handle"
    /\ npc' = [npc EXCEPT ![CqThread] = "mn1"]
    /\ UNCHANGED <<estate, handle, spawner, ppc, initState, workq, kicked,
                   everPolled, owed, epanic>>

\* The poller, after the tag is resolved: pop_work and UnfinishedWork::finish,
\* that is poll(cq, task, true).
CqPopWork ==
    /\ cqpc = "handle"
    /\ ppc[CqThread] = "none"
    /\ npc[CqThread] = "none"
    /\ workq > 0
    /\ workq' = workq - 1
    /\ ppc' = [ppc EXCEPT ![CqThread] = "p_cas"]
    /\ initState' = [initState EXCEPT ![CqThread] = NOTIFIED]
    /\ UNCHANGED <<estate, handle, spawner, npc, cqpc, kicked, everPolled, owed, epanic>>

\* The work queue is empty: the poller goes back to cq.next().
CqBackToWait ==
    /\ cqpc = "handle"
    /\ ppc[CqThread] = "none"
    /\ npc[CqThread] = "none"
    /\ workq = 0
    /\ cqpc' = "wait"
    /\ UNCHANGED <<estate, handle, spawner, ppc, initState, npc, workq, kicked,
                   everPolled, owed, epanic>>

(***************************************************************************)
(* Part 3: batch promises, ShareCall, StreamingBase and the server sink    *)
(* (src/async/promise.rs, src/call/mod.rs, src/call/server.rs, src/env.rs) *)
(***************************************************************************)

\* Bounds of the call model: the messages the peer sends, and the items the
\* handler writes.
MaxMsgs == 2
MaxItems == 1

\* The batch futures of one call: the terminal-close future (close_f), the
\* receive-message future (msg_f), the send-message future (batch_f) and the
\* future of the terminal status operation (flush_f).
Slots == {"close", "msg", "send", "flush"}

\* BatchType of the promise behind each future.
BatchTypeOf(slot) == IF slot = "msg" THEN "Read" ELSE "Finish"

\* Results: Ok(Some(message v)), Ok(None) (v = 0), or an error.
Res(k, v) == [k |-> k, v |-> v]
NotReady == Res("NotReady", 0)
NoResult == Res("None", 0)
IsErr(r) == r.k \notin {"Ok", "NotReady", "None"}

VARIABLES
    mode,        \* who holds the terminal-close future: "shared" (ShareCall,
                 \* a RequestStream and a DuplexSink) or "own" (StreamingBase.close_f)
    fut,         \* per slot: the CqFuture (Inner.result, Inner.stale)
    tags,        \* the tags handed to the native layer and not completed yet
    cqueue,      \* the completion queue: completed tags not dispatched yet
    finished,    \* ShareCall.finished
    status,      \* ShareCall.status
    sbClose,     \* StreamingBase.close_f is Some
    readDone,    \* StreamingBase.read_done
    sendMetadata,\* SinkBase.send_metadata
    buf,         \* SinkBase.buf: the item serialized last (0: empty)
    flushed,     \* DuplexSink.flushed
    peerSent,    \* the messages the peer has sent
    peerClosed,  \* the peer has half-closed
    delivered,   \* the messages the native layer has put into receive batches
    yielded,     \* the messages the read side has yielded, in order
    eos,         \* the read side has yielded end-of-stream
    closeAt,     \* the messages yielded when the read side saw close_f resolved
    rres,        \* the result of the last poll of the read side
    wres         \* the last operation on the sink and its result

cvars == <<mode, fut, tags, cqueue, finished, status, sbClose, readDone,
           sendMetadata, buf, flushed, peerSent, peerClosed, delivered,
           yielded, eos, closeAt, rres, wres>>

\* A future that does not exist (None), and one just made by check_run.
Absent == [st |-> "absent", res |-> NoResult, nset |-> 0, nyield |-> 0]
Pending == [st |-> "pending", res |-> NoResult, nset |-> 0, nyield |-> 0]

\* The call is accepted (accept_call!: start_server_side gives close_f) and
\* ShareCall::new, StreamingBase::new, SinkBase::new(true) have run.
CallInit ==
    /\ mode \in {"shared", "own"}
    /\ fut = [s \in Slots |-> IF s = "close" THEN Pending ELSE Absent]
    /\ tags = {"close"}
    /\ cqueue = <<>>
    /\ finished = FALSE
    /\ status = "None"
    /\ sbClose = (mode = "own")
    /\ readDone = FALSE
    /\ sendMetadata = TRUE
    /\ buf = 0
    /\ flushed = FALSE
    /\ peerSent = 0
    /\ peerClosed = FALSE
    /\ delivered = 0
    /\ yielded = <<>>
    /\ eos = FALSE
    /\ closeAt = MaxMsgs + 1
    /\ rres = <<"None", "None">>
    /\ wres = <<"None", "None">>

\* The completion queue of the call and the native call that starts a batch.
VARIABLES
    shutdown,    \* the completion queue has begun shutdown (cq.borrow() fails)
    pollerAlive, \* the thread of poll_queue has not left its loop
    callCode,    \* the GrpcCallStatus the native layer returns for the next start
    aborted      \* the peer has aborted the call

xvars == <<shutdown, pollerAlive, callCode, aborted>>

\* The queue is open, its poller runs, the native layer accepts operations.
CqInit ==
    /\ shutdown = FALSE
    /\ pollerAlive = TRUE
    /\ callCode = "Ok"
    /\ aborted = FALSE

\* The mutant of StartResult: the state of the queue is not looked at.
StartResultIgnoresShutdown == IF callCode # "Ok" THEN "Panic" ELSE "Ok"

\* Call::start_*: cq.borrow()? fails once the queue is shut down; check_run
\* frees the tag and panics when the native call does not return Ok.
StartResult ==
    IF shutdown THEN "QueueShutdown"
    ELSE IF callCode # "Ok" THEN "Panic"
    ELSE "Ok"

\* The handler's thread has not panicked.
HandlerAlive == rres[1] # "Panic" /\ wres[2] # "Panic"

\* ---- the peer and the native layer ----

PeerSend ==
    /\ ~peerClosed
    /\ peerSent < MaxMsgs
    /\ peerSent' = peerSent + 1
    /\ UNCHANGED <<mode, fut, tags, cqueue, finished, status, sbClose, readDone,
                   sendMetadata, buf, flushed, peerClosed, delivered,
                   yielded, eos, closeAt, rres, wres>>

PeerHalfClose ==
    /\ ~peerClosed
    /\ peerClosed' = TRUE
    /\ UNCHANGED <<mode, fut, tags, cqueue, finished, status, sbClose, readDone,
                   sendMetadata, buf, flushed, peerSent, delivered,
                   yielded, eos, closeAt, rres, wres>>

\* The native layer completes the receive batch: with the next message, or
\* with no message when the peer has half-closed and all were delivered.
NativeCompleteRecv ==
    /\ "msg" \in tags
    /\ \/ /\ delivered < peerSent
          /\ delivered' = delivered + 1
          /\ cqueue' = Append(cqueue, [slot |-> "msg", success |-> TRUE,
                                       statusOk |-> TRUE, msg |-> delivered + 1])
       \/ /\ delivered = peerSent
          /\ peerClosed
          /\ UNCHANGED delivered
          /\ cqueue' = Append(cqueue, [slot |-> "msg", success |-> TRUE,
                                       statusOk |-> TRUE, msg |-> 0])
    /\ tags' = tags \ {"msg"}
    /\ UNCHANGED <<mode, fut, finished, status, sbClose, readDone,
                   sendMetadata, buf, flushed, peerSent, peerClosed,
                   yielded, eos, closeAt, rres, wres>>

\* The native layer completes a batch without a message (close, send
\* message, send status): it succeeds or not.  Only the close batch receives
\* a status, and only a batch that succeeded has one that is not OK.
NativeCompleteFinish(slot, success, statusOk) ==
    /\ slot \in tags
    /\ BatchTypeOf(slot) = "Finish"
    /\ statusOk \/ (slot = "close" /\ success)
    /\ tags' = tags \ {slot}
    /\ cqueue' = Append(cqueue, [slot |-> slot, success |-> success,
                                 statusOk |-> statusOk, msg |-> 0])
    /\ UNCHANGED <<mode, fut, finished, status, sbClose, readDone,
                   sendMetadata, buf, flushed, peerSent, peerClosed, delivered,
                   yielded, eos, closeAt, rres, wres>>

\* The peer aborts the call: the native layer completes the close batch of
\* the server (it succeeds or not; a server receives no status).
PeerAbort(success) ==
    /\ ~aborted
    /\ "close" \in tags
    /\ aborted' = TRUE
    /\ tags' = tags \ {"close"}
    /\ cqueue' = Append(cqueue, [slot |-> "close", success |-> success,
                                 statusOk |-> TRUE, msg |-> 0])
    /\ UNCHANGED <<shutdown, pollerAlive, callCode>>
    /\ UNCHANGED <<mode, fut, finished, status, sbClose, readDone,
                   sendMetadata, buf, flushed, peerSent, peerClosed, delivered,
                   yielded, eos, closeAt, rres, wres>>

\* ---- the promise (src/async/promise.rs) ----

\* The mutant of FinishResponse: the failed batch returns before it sets a
\* result.
FinishResponseForgetsFailure(success, statusOk) ==
    IF ~success THEN NoResult
    ELSE IF ~statusOk THEN Res("RpcFailure", 0)
    ELSE Res("Ok", 0)

\* The mutant of FinishResponse: the status is looked at before the success
\* flag.
FinishResponseStatusFirst(success, statusOk) ==
    IF ~statusOk THEN Res("RpcFailure", 0)
    ELSE IF ~success THEN Res("RemoteStopped", 0)
    ELSE Res("Ok", 0)

\* Batch::finish_response
FinishResponse(success, statusOk) ==
    IF ~success THEN Res("RemoteStopped", 0)
    ELSE IF ~statusOk THEN Res("RpcFailure", 0)
    ELSE Res("Ok", 0)

\* Batch::read_one_msg: Ok(self.ctx.recv_message())
ReadOneMsg(msg) == Res("Ok", msg)

\* Batch::resolve: the result the promise sets, by batch type.
Resolve(ty, e) ==
    IF ty = "Finish" THEN FinishResponse(e.success, e.statusOk)
    ELSE ReadOneMsg(e.msg)

\* Inner::set_result: the result is stored in the future's inner.
SetResult(f, r) ==
    IF r = NoResult THEN f
    ELSE [f EXCEPT !.st = IF f.st = "stale" THEN "stale" ELSE "ready",
                   !.res = r, !.nset = f.nset + 1]

\* poll_queue: cq.next() gives a completed tag; its promise is taken and
\* resolved with the success flag of the event.
PollQueue ==
    /\ pollerAlive
    /\ cqueue # <<>>
    /\ LET e == Head(cqueue) IN
        /\ fut' = [fut EXCEPT ![e.slot] = SetResult(@, Resolve(BatchTypeOf(e.slot), e))]
        /\ cqueue' = Tail(cqueue)
    /\ UNCHANGED <<mode, tags, finished, status, sbClose, readDone,
                   sendMetadata, buf, flushed, peerSent, peerClosed, delivered,
                   yielded, eos, closeAt, rres, wres>>

\* The mutant of PollQueueTimeout: the poller leaves its loop on a timeout.
PollQueueTimeoutBreaks ==
    /\ pollerAlive
    /\ pollerAlive' = FALSE
    /\ UNCHANGED <<shutdown, callCode, aborted, cvars>>

\* poll_queue: cq.next() gives QueueTimeout; the loop continues.
PollQueueTimeout ==
    /\ pollerAlive
    /\ UNCHANGED <<xvars, cvars>>

\* poll_queue: cq.next() gives QueueShutdown (the native queue does so once
\* it is shut down and holds no pending tag); the thread leaves the loop.
PollQueueShutdown ==
    /\ pollerAlive
    /\ shutdown
    /\ tags = {}
    /\ cqueue = <<>>
    /\ pollerAlive' = FALSE
    /\ UNCHANGED <<shutdown, callCode, aborted, cvars>>

\* The completion queue begins its shutdown.
CqShutdown ==
    /\ ~shutdown
    /\ shutdown' = TRUE
    /\ UNCHANGED <<pollerAlive, callCode, aborted, cvars>>

\* The native layer starts to refuse, or accepts again, the batches that are
\* started on the call (the GrpcCallStatus of grpcwrap_call_*).
NativeRefuses ==
    /\ callCode' = IF callCode = "Ok" THEN "Error" ELSE "Ok"
    /\ UNCHANGED <<shutdown, pollerAlive, aborted, cvars>>

\* ---- the future (CqFuture::poll) ----

\* What a poll of future f returns.
FutPollRes(f) ==
    IF f.st = "stale" THEN Res("FutureStale", 0)
    ELSE IF f.st = "ready" THEN f.res
    ELSE NotReady

\* The future after the poll: a result that is yielded leaves it stale.
FutPollNext(f) ==
    IF f.st = "ready"
        THEN [f EXCEPT !.st = "stale", !.nyield = f.nyield + 1]
        ELSE f

\* The request that the server dispatches, and the wrappers that are dropped.
VARIABLES
    method,        \* the handler registered for the method of the request
    dpc,           \* where the dispatch of the request has got to
    handlerCalls,  \* how many times a handler of the service was invoked
    dOps,          \* the native operations started for the request
    abortCode,     \* the status code Call::abort has sent
    streamDropped, \* the stream wrapper has been dropped
    cancelCalls,   \* the calls of Call::cancel
    nativeCancels  \* the calls of grpc_call_cancel

dvars == <<method, dpc, handlerCalls, dOps, abortCode, streamDropped,
           cancelCalls, nativeCancels>>

\* ---- ShareCall (src/call/mod.rs) ----

\* The mutant of PollFinishFinished: the call is never marked finished.
PollFinishNeverFinished(r) == finished

\* ShareCall::poll_finish, for the result r of the poll of close_f: the call
\* becomes finished unless the future is not ready.
PollFinishFinished(r) == finished \/ r # NotReady

\* The mutant of PollFinishStatus: any other result clears the status.
PollFinishStatusCleared(r) ==
    IF r.k = "RpcFailure" THEN "Failed"
    ELSE IF r.k = "Ok" THEN "Ok"
    ELSE "None"

\* ShareCall::poll_finish: the status that is recorded.
PollFinishStatus(r) ==
    IF r.k = "RpcFailure" THEN "Failed"
    ELSE IF r.k = "Ok" THEN "Ok"
    ELSE status

\* async::check_alive: a future that holds a result is no longer alive; the
\* error carries the status of an RpcFailure result.
AsyncCheckAlive(f) ==
    IF f.st = "ready"
        THEN <<"RpcFinished", IF f.res.k = "RpcFailure" THEN "Failed" ELSE "None">>
        ELSE <<"Ok", "None">>

\* ShareCall::check_alive
CheckAlive ==
    IF finished THEN <<"RpcFinished", status>>
    ELSE AsyncCheckAlive(fut["close"])

\* ---- the read side (StreamingBase::poll, RequestStream::poll) ----

\* The mutant of ReadDoneAfter: every ready result ends the reading.
ReadDoneOnAnyResult(rd, polled, r) == rd \/ (polled /\ r.k = "Ok")

\* StreamingBase::poll: read_done after the poll of msg_f gave r.
ReadDoneAfter(rd, polled, r) == rd \/ (polled /\ r = Res("Ok", 0))

\* What a poll of the read side leaves behind and returns.
StreamReturn(f, tg, sc, rd, yl, es, ca, rr) ==
    /\ fut' = f
    /\ tags' = tg
    /\ sbClose' = sc
    /\ readDone' = rd
    /\ yielded' = yl
    /\ eos' = es
    /\ closeAt' = ca
    /\ rres' = rr
    /\ UNCHANGED <<mode, cqueue, finished, status, sendMetadata, buf, flushed,
                   peerSent, peerClosed, delivered, wres>>

\* The mutant of StreamPoll: the end of the messages ends the stream also
\* while close_f is held.
StreamPollSkipsClose ==
    LET alive == IF mode = "shared" THEN CheckAlive ELSE <<"Ok", "None">>
        cRes == IF sbClose THEN FutPollRes(fut["close"]) ELSE NotReady
        fut1 == IF sbClose THEN [fut EXCEPT !["close"] = FutPollNext(@)] ELSE fut
        closeTaken == sbClose /\ cRes.k = "Ok"
        sbClose1 == sbClose /\ ~closeTaken
        closeAt1 == IF closeTaken THEN Len(yielded) ELSE closeAt
        polled == ~readDone /\ fut["msg"].st # "absent"
        mRes == IF polled THEN FutPollRes(fut1["msg"]) ELSE Res("Ok", 0)
        fut2 == IF polled THEN [fut1 EXCEPT !["msg"] = FutPollNext(@)] ELSE fut1
        readDone1 == ReadDoneAfter(readDone, polled, mRes)
    IN  HandlerAlive /\ ~streamDropped /\
        IF alive[1] # "Ok"
            THEN StreamReturn(fut, tags, sbClose, readDone, yielded, eos, closeAt, alive)
        ELSE IF IsErr(cRes)
            THEN StreamReturn(fut1, tags, sbClose, readDone, yielded, eos, closeAt,
                              <<cRes.k, "None">>)
        ELSE IF mRes = NotReady \/ IsErr(mRes)
            THEN StreamReturn(fut2, tags, sbClose1, readDone, yielded, eos, closeAt1,
                              <<mRes.k, "None">>)
        ELSE IF readDone1
            THEN IF mRes.v = 0
                    THEN StreamReturn(fut2, tags, sbClose1, TRUE, yielded, TRUE, closeAt1,
                                      <<"Eos", "None">>)
                    ELSE StreamReturn(fut2, tags, sbClose1, TRUE, Append(yielded, mRes.v),
                                      eos, closeAt1, <<"Item", "None">>)
        ELSE IF StartResult # "Ok"
            THEN StreamReturn([fut2 EXCEPT !["msg"] = Absent], tags, sbClose1, FALSE,
                              yielded, eos, closeAt1, <<StartResult, "None">>)
        ELSE LET fut3 == [fut2 EXCEPT !["msg"] = Pending] IN
             IF mRes.v = 0
                THEN StreamReturn(fut3, tags \cup {"msg"}, sbClose1, FALSE, yielded, eos,
                                  closeAt1, <<"NotReady", "None">>)
                ELSE StreamReturn(fut3, tags \cup {"msg"}, sbClose1, FALSE,
                                  Append(yielded, mRes.v), eos, closeAt1,
                                  <<"Item", "None">>)

\* RequestStream::poll (the stream of a ShareCall: check_alive, then the
\* base) and the poll of a stream that holds its own close_f (the base alone).
StreamPoll ==
    LET alive == IF mode = "shared" THEN CheckAlive ELSE <<"Ok", "None">>
        cRes == IF sbClose THEN FutPollRes(fut["close"]) ELSE NotReady
        fut1 == IF sbClose THEN [fut EXCEPT !["close"] = FutPollNext(@)] ELSE fut
        closeTaken == sbClose /\ cRes.k = "Ok"
        sbClose1 == sbClose /\ ~closeTaken
        closeAt1 == IF closeTaken THEN Len(yielded) ELSE closeAt
        polled == ~readDone /\ fut["msg"].st # "absent"
        mRes == IF polled THEN FutPollRes(fut1["msg"]) ELSE Res("Ok", 0)
        fut2 == IF polled THEN [fut1 EXCEPT !["msg"] = FutPollNext(@)] ELSE fut1
        readDone1 == ReadDoneAfter(readDone, polled, mRes)
    IN  HandlerAlive /\ ~streamDropped /\
        IF alive[1] # "Ok"
            THEN StreamReturn(fut, tags, sbClose, readDone, yielded, eos, closeAt, alive)
        ELSE IF IsErr(cRes)
            THEN StreamReturn(fut1, tags, sbClose, readDone, yielded, eos, closeAt,
                              <<cRes.k, "None">>)
        ELSE IF mRes = NotReady \/ IsErr(mRes)
            THEN StreamReturn(fut2, tags, sbClose1, readDone, yielded, eos, closeAt1,
                              <<mRes.k, "None">>)
        ELSE IF readDone1
            THEN IF sbClose1
                    THEN StreamReturn(fut2, tags, sbClose1, TRUE, yielded, eos, closeAt1,
                                      <<"NotReady", "None">>)
                 ELSE IF mRes.v = 0
                    THEN StreamReturn(fut2, tags, sbClose1, TRUE, yielded, TRUE, closeAt1,
                                      <<"Eos", "None">>)
                    ELSE StreamReturn(fut2, tags, sbClose1, TRUE, Append(yielded, mRes.v),
                                      eos, closeAt1, <<"Item", "None">>)
        ELSE IF StartResult # "Ok"
            THEN StreamReturn([fut2 EXCEPT !["msg"] = Absent], tags, sbClose1, FALSE,
                              yielded, eos, closeAt1, <<StartResult, "None">>)
        ELSE LET fut3 == [fut2 EXCEPT !["msg"] = Pending] IN
             IF mRes.v = 0
                THEN StreamReturn(fut3, tags \cup {"msg"}, sbClose1, FALSE, yielded, eos,
                                  closeAt1, <<"NotReady", "None">>)
                ELSE StreamReturn(fut3, tags \cup {"msg"}, sbClose1, FALSE,
                                  Append(yielded, mRes.v), eos, closeAt1,
                                  <<"Item", "None">>)

\* ---- the write side (SinkBase, DuplexSink) ----

\* The mutant of PollCompleteRes: the sink does not wait for the write.
PollCompleteSkipsWait(f) == Res("Ok", 0)

\* SinkBase::poll_complete: the result, for the batch future f.
PollCompleteRes(f) == IF f.st = "absent" THEN Res("Ok", 0) ELSE FutPollRes(f)

\* SinkBase::poll_complete: batch_f afterwards (taken when it was ready).
PollCompleteNext(f) ==
    IF f.st = "absent" THEN f
    ELSE IF FutPollRes(f).k = "Ok" THEN Absent
    ELSE FutPollNext(f)

\* What an operation on the sink leaves behind and returns.
SinkReturn(f, tg, fin, stt, sm, b, fl, wr) ==
    /\ fut' = f
    /\ tags' = tg
    /\ finished' = fin
    /\ status' = stt
    /\ sendMetadata' = sm
    /\ buf' = b
    /\ flushed' = fl
    /\ wres' = wr
    /\ UNCHANGED <<mode, cqueue, sbClose, readDone, peerSent, peerClosed, delivered,
                   yielded, eos, closeAt, rres>>

\* The mutant of SinkStartSend: send_metadata stays as it is.
SinkStartSendKeepsMetadata(item) ==
    /\ mode = "shared"
    /\ HandlerAlive
    /\ LET pf == FutPollRes(fut["close"])
           fut1 == [fut EXCEPT !["close"] = FutPollNext(@)]
           bRes == PollCompleteRes(fut["send"])
           fut2 == [fut1 EXCEPT !["send"] = PollCompleteNext(@)]
       IN  IF pf # NotReady
               THEN SinkReturn(fut1, tags, PollFinishFinished(pf), PollFinishStatus(pf),
                               sendMetadata, buf, flushed,
                               <<"start_send", IF pf.k = "Ok" THEN "RemoteStopped" ELSE pf.k>>)
           ELSE IF bRes.k # "Ok"
               THEN SinkReturn(fut2, tags, finished, status, sendMetadata, buf, flushed,
                               <<"start_send", bRes.k>>)
           ELSE IF StartResult # "Ok"
               THEN SinkReturn(fut2, tags, finished, status, sendMetadata, item, flushed,
                               <<"start_send", StartResult>>)
           ELSE SinkReturn([fut2 EXCEPT !["send"] = Pending], tags \cup {"send"},
                           finished, status, sendMetadata, item, flushed,
                           <<"start_send", "Ready">>)

\* DuplexSink::start_send: poll_finish of the call, then SinkBase::start_send.
SinkStartSend(item) ==
    /\ mode = "shared"
    /\ HandlerAlive
    /\ LET pf == FutPollRes(fut["close"])
           fut1 == [fut EXCEPT !["close"] = FutPollNext(@)]
           bRes == PollCompleteRes(fut["send"])
           fut2 == [fut1 EXCEPT !["send"] = PollCompleteNext(@)]
       IN  IF pf # NotReady
               THEN SinkReturn(fut1, tags, PollFinishFinished(pf), PollFinishStatus(pf),
                               sendMetadata, buf, flushed,
                               <<"start_send", IF pf.k = "Ok" THEN "RemoteStopped" ELSE pf.k>>)
           ELSE IF bRes.k # "Ok"
               THEN SinkReturn(fut2, tags, finished, status, sendMetadata, buf, flushed,
                               <<"start_send", bRes.k>>)
           ELSE IF StartResult # "Ok"
               THEN SinkReturn(fut2, tags, finished, status, sendMetadata, item, flushed,
                               <<"start_send", StartResult>>)
           ELSE SinkReturn([fut2 EXCEPT !["send"] = Pending], tags \cup {"send"},
                           finished, status, FALSE, item, flushed,
                           <<"start_send", "Ready">>)

\* DuplexSink::poll_complete
SinkPollComplete ==
    /\ mode = "shared"
    /\ HandlerAlive
    /\ SinkReturn([fut EXCEPT !["send"] = PollCompleteNext(@)], tags, finished, status,
                  sendMetadata, buf, flushed,
                  <<"poll_complete", PollCompleteRes(fut["send"]).k>>)

\* The mutant of SinkClose: the status operation is not waited for.
SinkCloseSkipsStatusWait ==
    /\ mode = "shared"
    /\ HandlerAlive
    /\ LET submit == fut["flush"].st = "absent"
           bRes == IF submit THEN PollCompleteRes(fut["send"]) ELSE Res("Ok", 0)
           fut1 == IF submit /\ fut["send"].st # "absent" /\ bRes.k # "Ok"
                       THEN [fut EXCEPT !["send"] = FutPollNext(@)]
                   ELSE IF submit
                       THEN [fut EXCEPT !["send"] = Absent, !["flush"] = Pending]
                   ELSE fut
           tags1 == IF submit /\ bRes.k = "Ok" THEN tags \cup {"flush"} ELSE tags
           fRes == Res("Ok", 0)
           fut2 == IF flushed THEN fut1 ELSE [fut1 EXCEPT !["flush"] = FutPollNext(@)]
           pf == FutPollRes(fut2["close"])
           fut3 == [fut2 EXCEPT !["close"] = FutPollNext(@)]
       IN  IF bRes.k # "Ok"
               THEN SinkReturn(fut1, tags, finished, status, sendMetadata, buf, flushed,
                               <<"close", bRes.k>>)
           ELSE IF submit /\ StartResult # "Ok"
               THEN SinkReturn([fut EXCEPT !["send"] = Absent], tags, finished, status,
                               sendMetadata, buf, flushed, <<"close", StartResult>>)
           ELSE IF fRes.k # "Ok"
               THEN SinkReturn(fut2, tags1, finished, status, sendMetadata, buf, flushed,
                               <<"close", fRes.k>>)
           ELSE SinkReturn(fut3, tags1, PollFinishFinished(pf), PollFinishStatus(pf),
                           sendMetadata, buf, TRUE,
                           <<"close", IF pf.k = "Ok" THEN "Ready" ELSE pf.k>>)

\* DuplexSink::close: wait for the write, submit the status, wait for it, and
\* wait for the call to finish.
SinkClose ==
    /\ mode = "shared"
    /\ HandlerAlive
    /\ LET submit == fut["flush"].st = "absent"
           bRes == IF submit THEN PollCompleteRes(fut["send"]) ELSE Res("Ok", 0)
           fut1 == IF submit /\ fut["send"].st # "absent" /\ bRes.k # "Ok"
                       THEN [fut EXCEPT !["send"] = FutPollNext(@)]
                   ELSE IF submit
                       THEN [fut EXCEPT !["send"] = Absent, !["flush"] = Pending]
                   ELSE fut
           tags1 == IF submit /\ bRes.k = "Ok" THEN tags \cup {"flush"} ELSE tags
           fRes == IF flushed THEN Res("Ok", 0) ELSE FutPollRes(fut1["flush"])
           fut2 == IF flushed THEN fut1 ELSE [fut1 EXCEPT !["flush"] = FutPollNext(@)]
           pf == FutPollRes(fut2["close"])
           fut3 == [fut2 EXCEPT !["close"] = FutPollNext(@)]
       IN  IF bRes.k # "Ok"
               THEN SinkReturn(fut1, tags, finished, status, sendMetadata, buf, flushed,
                               <<"close", bRes.k>>)
           ELSE IF submit /\ StartResult # "Ok"
               THEN SinkReturn([fut EXCEPT !["send"] = Absent], tags, finished, status,
                               sendMetadata, buf, flushed, <<"close", StartResult>>)
           ELSE IF fRes.k # "Ok"
               THEN SinkReturn(fut2, tags1, finished, status, sendMetadata, buf, flushed,
                               <<"close", fRes.k>>)
           ELSE SinkReturn(fut3, tags1, PollFinishFinished(pf), PollFinishStatus(pf),
                           sendMetadata, buf, TRUE,
                           <<"close", IF pf.k = "Ok" THEN "Ready" ELSE pf.k>>)

(***************************************************************************)
(* Part 4: the dispatch of a request and the drop of a stream              *)
(* (src/call/server.rs, src/call/mod.rs)                                   *)
(***************************************************************************)

\* A request has arrived (request_call completed); its method has no handler,
\* a client-streaming or duplex handler, or a unary or server-streaming one.
DispatchInit ==
    /\ method \in {"unknown", "stream", "unary"}
    /\ dpc = "requested"
    /\ handlerCalls = 0
    /\ dOps = {}
    /\ abortCode = "None"
    /\ streamDropped = FALSE
    /\ cancelCalls = 0
    /\ nativeCancels = 0

\* The dispatch part at rest: the handler of a streaming method was invoked
\* and holds its stream.
DispatchRest ==
    /\ method = "stream"
    /\ dpc = "handler"
    /\ handlerCalls = 1
    /\ dOps = {"start_server_side"}
    /\ abortCode = "None"
    /\ streamDropped = FALSE
    /\ cancelCalls = 0
    /\ nativeCancels = 0

\* What a step of the dispatch leaves behind.
DispatchReturn(pc, n, ops, code) ==
    /\ dpc' = pc
    /\ handlerCalls' = n
    /\ dOps' = ops
    /\ abortCode' = code
    /\ UNCHANGED <<method, streamDropped, cancelCalls, nativeCancels>>

\* Call::abort(status): nothing when the queue is shut down; a panic when the
\* native call fails; otherwise the status is sent.
Abort(ops, code) ==
    IF shutdown THEN DispatchReturn("returned", handlerCalls, ops, abortCode)
    ELSE IF callCode # "Ok" THEN DispatchReturn("panicked", handlerCalls, ops, abortCode)
    ELSE DispatchReturn("returned", handlerCalls, ops \cup {"send_status"}, code)

\* The mutant of ExecuteUnimplemented: the call is accepted and left alone.
ExecuteUnimplementedNoAbort ==
    IF StartResult = "QueueShutdown"
        THEN DispatchReturn("returned", handlerCalls, dOps, abortCode)
    ELSE IF StartResult = "Panic"
        THEN DispatchReturn("panicked", handlerCalls, dOps, abortCode)
    ELSE DispatchReturn("returned", handlerCalls, dOps \cup {"start_server_side"}, abortCode)

\* execute_unimplemented: accept_call!, then abort with Unimplemented.
ExecuteUnimplemented ==
    IF StartResult = "QueueShutdown"
        THEN DispatchReturn("returned", handlerCalls, dOps, abortCode)
    ELSE IF StartResult = "Panic"
        THEN DispatchReturn("panicked", handlerCalls, dOps, abortCode)
    ELSE Abort(dOps \cup {"start_server_side"}, "Unimplemented")

\* execute_client_streaming, execute_duplex_streaming: accept_call!, then the
\* handler of the service is invoked with the stream and the sink.
ExecuteStreaming ==
    IF StartResult = "QueueShutdown"
        THEN DispatchReturn("returned", handlerCalls, dOps, abortCode)
    ELSE IF StartResult = "Panic"
        THEN DispatchReturn("panicked", handlerCalls, dOps, abortCode)
    ELSE DispatchReturn("handler", handlerCalls + 1, dOps \cup {"start_server_side"},
                        abortCode)

\* RequestContext::handle_stream_req
HandleStreamReq ==
    /\ dpc = "requested"
    /\ IF method = "unknown" THEN ExecuteUnimplemented
       ELSE IF method = "stream" THEN ExecuteStreaming
       ELSE DispatchReturn("unary_wait", handlerCalls, dOps, abortCode)
    /\ UNCHANGED <<cvars, xvars>>

\* RequestContext::handle_unary_req: the request message is fetched before
\* the handler is called.
HandleUnaryReq ==
    /\ dpc = "unary_wait"
    /\ IF callCode # "Ok"
           THEN DispatchReturn("panicked", handlerCalls, dOps, abortCode)
           ELSE DispatchReturn("unary_recv", handlerCalls, dOps \cup {"recv_message"},
                               abortCode)
    /\ UNCHANGED <<cvars, xvars>>

\* The mutant of UnaryHandle: the result of the deserialization is not
\* looked at.
UnaryHandleIgnoresDe(hasData, deOk) ==
    /\ dpc = "unary_recv"
    /\ IF ~hasData THEN Abort(dOps, "Internal")
       ELSE IF StartResult = "QueueShutdown"
           THEN DispatchReturn("returned", handlerCalls, dOps, abortCode)
       ELSE IF StartResult = "Panic"
           THEN DispatchReturn("panicked", handlerCalls, dOps, abortCode)
       ELSE DispatchReturn("handler", handlerCalls + 1, dOps \cup {"start_server_side"},
                           abortCode)
    /\ UNCHANGED <<cvars, xvars>>

\* UnaryRequestContext::handle with execute_unary / execute_server_streaming:
\* no payload aborts the call; otherwise accept_call!, and a payload that does
\* not deserialize aborts the call; otherwise the handler is invoked.
UnaryHandle(hasData, deOk) ==
    /\ dpc = "unary_recv"
    /\ IF ~hasData THEN Abort(dOps, "Internal")
       ELSE IF StartResult = "QueueShutdown"
           THEN DispatchReturn("returned", handlerCalls, dOps, abortCode)
       ELSE IF StartResult = "Panic"
           THEN DispatchReturn("panicked", handlerCalls, dOps, abortCode)
       ELSE IF ~deOk THEN Abort(dOps \cup {"start_server_side"}, "Internal")
       ELSE DispatchReturn("handler", handlerCalls + 1, dOps \cup {"start_server_side"},
                           abortCode)
    /\ UNCHANGED <<cvars, xvars>>

\* The mutant of StreamDrop: only read_done is looked at.
StreamDropReadOnly ==
    /\ ~streamDropped
    /\ streamDropped' = TRUE
    /\ IF ~readDone
           THEN /\ cancelCalls' = cancelCalls + 1
                /\ nativeCancels' = IF shutdown THEN nativeCancels ELSE nativeCancels + 1
           ELSE UNCHANGED <<cancelCalls, nativeCancels>>
    /\ UNCHANGED <<method, dpc, handlerCalls, dOps, abortCode, cvars, xvars>>

\* StreamingBase::on_drop (the Drop of the stream wrapper) with Call::cancel:
\* the call is cancelled when read_done is not set or close_f is still held;
\* Call::cancel does nothing when the queue is shut down.
StreamDrop ==
    /\ ~streamDropped
    /\ streamDropped' = TRUE
    /\ IF ~readDone \/ sbClose
           THEN /\ cancelCalls' = cancelCalls + 1
                /\ nativeCancels' = IF shutdown THEN nativeCancels ELSE nativeCancels + 1
           ELSE UNCHANGED <<cancelCalls, nativeCancels>>
    /\ UNCHANGED <<method, dpc, handlerCalls, dOps, abortCode, cvars, xvars>>

(***************************************************************************)
(* Part 5: the write flags and the transport (src/call/mod.rs)             *)
(***************************************************************************)

\* The writes of one sink that the model follows.
MaxSends == 2

VARIABLES
    sends,      \* the messages the sink has given to the native layer
    held,       \* the messages the native layer holds back (buffer hint)
    wire,       \* the messages the native layer has put on the wire
    ownFlush,   \* the messages sent with the hint and flushed by their own send
    allHinted,  \* every message so far was sent with buffer_hint(true)
    closeSent,  \* the terminal operation was given to the native layer
    peerDone    \* the peer has observed the completion of the call

bvars == <<sends, held, wire, ownFlush, allHinted, closeSent, peerDone>>

BufferInit ==
    /\ sends = 0
    /\ held = 0
    /\ wire = 0
    /\ ownFlush = 0
    /\ allHinted = TRUE
    /\ closeSent = FALSE
    /\ peerDone = FALSE

\* The mutant of WireHint: the hint is always cleared.
WireHintDropped(hint, sm) == FALSE

\* SinkBase::start_send: the buffer hint that reaches start_send_message; it
\* is cleared when the initial metadata goes with the message.
WireHint(hint, sm) == hint /\ ~sm

\* DuplexSink::start_send with the write flags of the item: when the message
\* is given to the native layer, the native layer holds it back if the hint
\* reaches it, and otherwise puts it on the wire with all it held back.  The
\* caller keeps the contract of Sink: nothing is sent after close().
SinkStartSendFlags(item, hint) ==
    /\ sends < MaxSends
    /\ wres[1] # "close"
    /\ SinkStartSend(item)
    /\ IF wres' = <<"start_send", "Ready">>
           THEN /\ sends' = sends + 1
                /\ allHinted' = (allHinted /\ hint)
                /\ IF WireHint(hint, sendMetadata)
                       THEN /\ held' = held + 1
                            /\ UNCHANGED <<wire, ownFlush>>
                       ELSE /\ held' = 0
                            /\ wire' = wire + held + 1
                            /\ ownFlush' = IF hint THEN ownFlush + 1 ELSE ownFlush
           ELSE UNCHANGED <<sends, allHinted, held, wire, ownFlush>>
    /\ UNCHANGED <<closeSent, peerDone>>

\* DuplexSink::close: when the terminal operation is given to the native
\* layer, all that was held back goes on the wire before it.
SinkCloseFlush ==
    /\ SinkClose
    /\ IF fut["flush"].st = "absent" /\ fut'["flush"].st # "absent"
           THEN /\ closeSent' = TRUE
                /\ wire' = wire + held
                /\ held' = 0
           ELSE UNCHANGED <<closeSent, wire, held>>
    /\ UNCHANGED <<sends, ownFlush, allHinted, peerDone>>

\* The peer receives the terminal operation.
PeerObservesCompletion ==
    /\ closeSent
    /\ ~peerDone
    /\ peerDone' = TRUE
    /\ UNCHANGED <<sends, held, wire, ownFlush, allHinted, closeSent>>

(***************************************************************************)
(* Part 6: the unary sink (src/call/server.rs, src/async/promise.rs)       *)
(***************************************************************************)

\* The responses a handler can give.
MaxResp == 2

\* The serialized response: the bytes the SerializeFn of the method writes.
Ser(t) == <<t % 2, t>>

\* The DeserializeFn of the method, on the client.
De(bytes) == bytes[2]

\* No payload (Option::None).
NoData == <<>>

VARIABLES
    usink,      \* UnarySink / UnarySinkResult: "sink", "cq", "err", "finish"
    uerr,       \* UnarySinkResult::err
    ures,       \* what the last poll of the UnarySinkResult returned
    ucode,      \* the status the handler completed the sink with
    given,      \* the response the handler gave (0: none)
    statusOps,  \* the send_status_from_server operations given to the native layer
    clientRes   \* what the unary future of the client resolved to

uvars == <<usink, uerr, ures, ucode, given, statusOps, clientRes>>

UnaryInit ==
    /\ usink = "sink"
    /\ uerr = "None"
    /\ ures = "None"
    /\ ucode = "None"
    /\ given = 0
    /\ statusOps = <<>>
    /\ clientRes = [k |-> "None", code |-> "None", data |-> NoData]

\* execute_unary has invoked the handler with the UnarySink.
UnaryRest ==
    /\ method = "unary"
    /\ dpc = "handler"
    /\ handlerCalls = 1
    /\ dOps = {"recv_message", "start_server_side"}
    /\ abortCode = "None"
    /\ streamDropped = FALSE
    /\ cancelCalls = 0
    /\ nativeCancels = 0

\* UnarySink::complete: the response is serialized and one
\* send_status_from_server carries the status and the payload; an error of the
\* start is kept for the first poll of the result.
UnaryComplete(code, t) ==
    /\ usink = "sink"
    /\ ucode' = code
    /\ given' = t
    /\ LET data == IF t # 0 THEN Ser(t) ELSE NoData IN
       IF StartResult = "QueueShutdown"
           THEN /\ usink' = "err"
                /\ uerr' = "QueueShutdown"
                /\ UNCHANGED <<ures, statusOps, fut, tags>>
       ELSE IF StartResult = "Panic"
           THEN /\ usink' = "finish"
                /\ ures' = "Panic"
                /\ UNCHANGED <<uerr, statusOps, fut, tags>>
       ELSE /\ usink' = "cq"
            /\ statusOps' = Append(statusOps, [code |-> code, data |-> data])
            /\ fut' = [fut EXCEPT !["flush"] = Pending]
            /\ tags' = tags \cup {"flush"}
            /\ UNCHANGED <<uerr, ures>>
    /\ UNCHANGED <<clientRes, mode, cqueue, finished, status, sbClose, readDone,
                   sendMetadata, buf, flushed, peerSent, peerClosed, delivered,
                   yielded, eos, closeAt, rres, wres>>

\* UnarySink::success
UnarySuccess(t) == UnaryComplete("Ok", t)

\* UnarySink::fail
UnaryFail(code) == UnaryComplete(code, 0)

\* What a poll of the result leaves behind.
UnaryReturn(us, f, fin, stat, r) ==
    /\ usink' = us
    /\ fut' = f
    /\ finished' = fin
    /\ status' = stat
    /\ ures' = r
    /\ uerr' = "None"
    /\ UNCHANGED <<ucode, given, statusOps, clientRes, mode, tags, cqueue, sbClose,
                   readDone, sendMetadata, buf, flushed, peerSent, peerClosed,
                   delivered, yielded, eos, closeAt, rres, wres>>

\* ShareCall::poll_finish, for the result of the unary sink.
UnaryPollFinish(f) ==
    LET pf == FutPollRes(f["close"])
        f1 == [f EXCEPT !["close"] = FutPollNext(@)]
    IN  IF pf = NotReady
            THEN UnaryReturn("finish", f1, finished, status, "NotReady")
            ELSE UnaryReturn("finish", f1, PollFinishFinished(pf), PollFinishStatus(pf),
                             IF pf.k = "Ok" THEN "Ready" ELSE pf.k)

\* The mutant of UnarySinkResultPoll: ready as soon as the status is sent.
UnarySinkResultPollNoFinish ==
    /\ usink \in {"cq", "err", "finish"}
    /\ ures \in {"None", "NotReady"}
    /\ IF usink = "err"
           THEN UnaryReturn("finish", fut, finished, status, uerr)
       ELSE IF usink = "cq"
           THEN LET r == FutPollRes(fut["flush"])
                    f1 == [fut EXCEPT !["flush"] = FutPollNext(@)]
                IN  IF r = NotReady \/ IsErr(r)
                        THEN UnaryReturn("cq", f1, finished, status, r.k)
                        ELSE UnaryReturn("finish", f1, finished, status, "Ready")
       ELSE UnaryPollFinish(fut)

\* UnarySinkResult::poll: a kept error is returned; else cq_f is polled until
\* it is ready, and then the call is polled for its end.  The future is not
\* polled again after it returned Ready or an error.
UnarySinkResultPoll ==
    /\ usink \in {"cq", "err", "finish"}
    /\ ures \in {"None", "NotReady"}
    /\ IF usink = "err"
           THEN UnaryReturn("finish", fut, finished, status, uerr)
       ELSE IF usink = "cq"
           THEN LET r == FutPollRes(fut["flush"])
                    f1 == [fut EXCEPT !["flush"] = FutPollNext(@)]
                IN  IF r = NotReady \/ IsErr(r)
                        THEN UnaryReturn("cq", f1, finished, status, r.k)
                        ELSE UnaryPollFinish(f1)
       ELSE UnaryPollFinish(fut)

\* The mutant of HandleUnaryResponse: the status is not looked at.
HandleUnaryResponseNoCheck(code, data) ==
    [k |-> "Ok", code |-> "Ok", data |-> data]

\* Batch::handle_unary_response: the result of the unary future of the client
\* for the status and the message it received.
HandleUnaryResponse(code, data) ==
    IF code # "Ok"
        THEN [k |-> "RpcFailure", code |-> code, data |-> NoData]
        ELSE [k |-> "Ok", code |-> "Ok", data |-> data]

\* The batch of the client completes with what the server sent, and
\* Batch::resolve (CheckRead) sets the result of the client's future.
ClientResolve ==
    /\ clientRes.k = "None"
    /\ Len(statusOps) > 0
    /\ clientRes' = HandleUnaryResponse(statusOps[1].code, statusOps[1].data)
    /\ UNCHANGED <<usink, uerr, ures, ucode, given, statusOps, cvars>>

(***************************************************************************)
(* Part 7: the resolution of one batch (src/async/promise.rs)              *)
(***************************************************************************)

BatchTypes == {"Finish", "CheckRead", "Read"}

\* The status codes the native layer reports for the call.
StatusCodes == {"Ok", "Unavailable", "Internal"}

\* The bytes of the status details: a byte that is valid UTF-8 and one that
\* is not.
ValidByte == "a"
InvalidByte == "x"
Replacement == "?"
DetailBytes == {<<>>, <<ValidByte>>, <<InvalidByte, ValidByte>>}

\* String::from_utf8_lossy
Utf8Lossy(bytes) ==
    [i \in DOMAIN bytes |-> IF bytes[i] = InvalidByte THEN Replacement ELSE bytes[i]]

\* Option: None, Some(x).
None == <<>>
Some(x) == <<x>>

\* The contexts the native layer can fill: the status received, its details
\* and the message received (0: a null buffer).
BatchContexts ==
    [code : StatusCodes, details : DetailBytes, msg : 0..MaxResp]

\* BatchContext::rpc_status: no details with the code OK, the details decoded
\* otherwise.
RpcStatus(ctx) ==
    [code |-> ctx.code,
     details |-> IF ctx.code = "Ok" THEN None ELSE Some(Utf8Lossy(ctx.details))]

\* RpcStatus::ok()
StatusOk == [code |-> "Ok", details |-> None]

\* BatchContext::recv_message: None for a null buffer.
RecvMessage(ctx) == ctx.msg

\* What the promise does with its future: the kind of the result that is
\* set, the status an RpcFailure carries, the message of Ok (0: Ok(None)),
\* and whether recv_message was called.
BatchOut(k, st, m, took) == [k |-> k, status |-> st, msg |-> m, took |-> took]
NoOut == BatchOut("None", StatusOk, 0, FALSE)

\* A failed assert!(success): the thread panics and no result is set.
PanicOut == BatchOut("Panic", StatusOk, 0, FALSE)

VARIABLES
    bty,        \* the BatchType of the promise
    bsuccess,   \* the success flag of the completion event
    bctx,       \* the BatchContext the native layer filled
    bout        \* what Batch::resolve did

pvars == <<bty, bsuccess, bctx, bout>>

\* A batch of any type has completed with any flag and any context.
BatchInit ==
    /\ bty \in BatchTypes
    /\ bsuccess \in BOOLEAN
    /\ bctx \in BatchContexts
    /\ bout = NoOut

\* The part at rest: no batch is followed.
BatchRest ==
    /\ bty = "Finish"
    /\ bsuccess = TRUE
    /\ bctx = [code |-> "Ok", details |-> <<>>, msg |-> 0]
    /\ bout = NoOut

\* Batch::finish_response with the context of the batch.
BatchFinish(success, ctx) ==
    LET st == RpcStatus(ctx)
        r == FinishResponse(success, st.code = "Ok")
    IN  BatchOut(r.k, IF r.k = "RpcFailure" THEN st ELSE StatusOk, 0, FALSE)

\* Batch::handle_unary_response with the context of the batch.
BatchCheckRead(ctx) ==
    LET st == RpcStatus(ctx)
        r == HandleUnaryResponse(st.code, RecvMessage(ctx))
    IN  IF r.k = "Ok"
            THEN BatchOut("Ok", StatusOk, r.data, TRUE)
            ELSE BatchOut(r.k, st, 0, FALSE)

\* Batch::read_one_msg with the context of the batch.
BatchRead(ctx) == BatchOut(ReadOneMsg(RecvMessage(ctx)).k, StatusOk,
                           ReadOneMsg(RecvMessage(ctx)).v, TRUE)

\* Batch::resolve
BatchResolve(ty, success, ctx) ==
    IF ty = "CheckRead"
        THEN IF success THEN BatchCheckRead(ctx) ELSE PanicOut
    ELSE IF ty = "Finish"
        THEN BatchFinish(success, ctx)
    ELSE IF success THEN BatchRead(ctx) ELSE PanicOut

\* poll_queue hands the completed batch to its promise.
ResolveBatch ==
    /\ bout = NoOut
    /\ bout' = BatchResolve(bty, bsuccess, bctx)
    /\ UNCHANGED <<bty, bsuccess, bctx>>

(***************************************************************************)
(* Part 8: the operations a call gives to the native layer                 *)
(* (src/call/mod.rs, src/call/server.rs)                                   *)
(***************************************************************************)

VARIABLES
    sinkOps,     \* the operations the sink has started, in order, each with
                 \* the send_metadata argument it carried
    recvOps,     \* the receive-message operations the stream has started
    resolvedOps, \* per slot: the futures the poller has resolved
    wbuf         \* SinkBase.buf: the bytes in the write buffer

ovars == <<sinkOps, recvOps, resolvedOps, wbuf>>

OpsInit ==
    /\ wbuf = NoData
    /\ sinkOps = <<>>
    /\ recvOps = 0
    /\ resolvedOps = [s \in Slots |-> 0]

\* An operation of the sink as the native layer gets it: the kind, the
\* send_metadata argument and the payload.
SinkOp(op, sm, data) == [op |-> op, sm |-> sm, data |-> data]

\* The mutant of BufAfter: the buffer is not cleared.
BufAfterNoClear(b, item) == b \o Ser(item)

\* SinkBase::start_send: self.buf.clear(); ser(t, &mut self.buf)
BufAfter(b, item) == Ser(item)

\* The send-message operations among the operations of the sink.
SendOps == Len(SelectSeq(sinkOps, LAMBDA o : o.op = "send"))

\* The status operations among the operations of the sink.
StatusOps == Len(SelectSeq(sinkOps, LAMBDA o : o.op = "status"))

\* poll_queue, counting the futures it resolves.
PollQueueOps ==
    /\ PollQueue
    /\ resolvedOps' = [resolvedOps EXCEPT ![Head(cqueue).slot] = @ + 1]
    /\ UNCHANGED <<sinkOps, recvOps, wbuf>>

\* RequestStream::poll; start_recv_message is the last thing a poll does
\* before it returns, and it leaves a new future in msg_f.
StreamPollOps ==
    /\ StreamPoll
    /\ recvOps' = IF fut["msg"].st # "pending" /\ fut'["msg"].st = "pending"
                      THEN recvOps + 1 ELSE recvOps
    /\ UNCHANGED <<sinkOps, resolvedOps, wbuf>>

\* DuplexSink::start_send: the item is serialized once the call is found
\* alive and no write is outstanding; start_send_message gets the buffer and
\* self.send_metadata as it is before the call, and Ok(true) is returned only
\* after it was started.  The caller keeps the contract of Sink: nothing is
\* sent after close().
SinkStartSendOps(item) ==
    /\ SendOps < MaxSends
    /\ wres[1] \notin {"close", "fail"}
    /\ SinkStartSend(item)
    /\ wbuf' = IF wres'[2] \in {"Ready", "QueueShutdown", "Panic"}
                   THEN BufAfter(wbuf, item) ELSE wbuf
    /\ sinkOps' = IF wres'[2] = "Ready"
                      THEN Append(sinkOps, SinkOp("send", sendMetadata, wbuf'))
                      ELSE sinkOps
    /\ UNCHANGED <<recvOps, resolvedOps>>

\* DuplexSink::poll_complete
SinkPollCompleteOps ==
    /\ wres[1] \notin {"close", "fail"}
    /\ SinkPollComplete
    /\ UNCHANGED ovars

\* DuplexSink::close: start_send_status_from_server gets
\* self.base.send_metadata, and its future is kept in flush_f.
SinkCloseOps ==
    /\ wres[1] # "fail"
    /\ SinkClose
    /\ sinkOps' = IF fut["flush"].st = "absent" /\ fut'["flush"].st # "absent"
                      THEN Append(sinkOps, SinkOp("status", sendMetadata, NoData))
                      ELSE sinkOps
    /\ UNCHANGED <<recvOps, resolvedOps, wbuf>>

\* DuplexSink::fail: the sink is consumed; it asserts that close() has not
\* started the status operation, and starts it with self.base.send_metadata.
SinkFail ==
    /\ mode = "shared"
    /\ HandlerAlive
    /\ wres[1] \notin {"close", "fail"}
    /\ fut["flush"].st = "absent"
    /\ IF StartResult # "Ok"
           THEN /\ SinkReturn(fut, tags, finished, status, sendMetadata, buf, flushed,
                              <<"fail", StartResult>>)
                /\ UNCHANGED sinkOps
           ELSE /\ SinkReturn([fut EXCEPT !["flush"] = Pending], tags \cup {"flush"},
                              finished, status, sendMetadata, buf, flushed,
                              <<"fail", "Ok">>)
                /\ sinkOps' = Append(sinkOps, SinkOp("status", sendMetadata, NoData))
    /\ UNCHANGED <<recvOps, resolvedOps, wbuf>>

(***************************************************************************)
(* Part 9: the two halves of a call that share it behind the lock          *)
(* (src/call/mod.rs, src/call/server.rs, src/async/lock.rs)                *)
(***************************************************************************)

\* The thread that drives the RequestStream and the thread that drives the
\* DuplexSink of one call.
Reader == 1
Writer == 2
Holders == {Reader, Writer}

\* The operations on the ShareCall that each half runs inside the lock:
\* RequestStream::poll begins with check_alive, DuplexSink::start_send with
\* poll_finish, and SinkBase::start_send starts the send-message operation.
HolderOps(t) ==
    IF t = Reader THEN {"check_alive"}
    ELSE {"poll_finish", "start_send_message"}

VARIABLES
    hop,   \* per thread: the closure it has passed to ShareCallHolder::call
    hpc    \* per thread: where it is inside ShareCallHolder::call

hvars == <<hop, hpc>>

HolderInit ==
    /\ hop = [t \in Threads |-> "none"]
    /\ hpc = [t \in Threads |-> "none"]

\* ShareCallHolder::call: let mut call = self.lock().  A half starts an
\* operation only when its own future of that kind is not held.
HolderCall(t, op) ==
    /\ hpc[t] = "none"
    /\ op = "start_send_message" => fut["send"].st = "absent"
    /\ LockCall(t)
    /\ hop' = [hop EXCEPT ![t] = op]
    /\ hpc' = [hpc EXCEPT ![t] = "locking"]
    /\ UNCHANGED cvars

\* lock() has returned the guard: f(&mut call) begins (DerefMut on the guard).
HolderEnter(t) ==
    /\ hpc[t] = "locking"
    /\ lpc[t] = "idle"
    /\ guards[t] > 0
    /\ hpc' = [hpc EXCEPT ![t] = "inside"]
    /\ UNCHANGED <<hop, lvars, cvars>>

\* f(&mut call) runs to its end: check_alive reads finished, status and
\* close_f; poll_finish polls close_f and writes finished and status; a start
\* operation gives a batch to the native layer.
HolderExit(t) ==
    /\ hpc[t] = "inside"
    /\ hpc' = [hpc EXCEPT ![t] = "done"]
    /\ UNCHANGED <<hop, lvars>>
    /\ IF hop[t] = "check_alive"
           THEN /\ rres' = CheckAlive
                /\ UNCHANGED <<fut, tags, finished, status, wres>>
       ELSE IF hop[t] = "poll_finish"
           THEN LET pf == FutPollRes(fut["close"]) IN
                /\ fut' = [fut EXCEPT !["close"] = FutPollNext(@)]
                /\ finished' = PollFinishFinished(pf)
                /\ status' = PollFinishStatus(pf)
                /\ wres' = <<"poll_finish", pf.k>>
                /\ UNCHANGED <<tags, rres>>
       ELSE /\ fut' = [fut EXCEPT !["send"] = Pending]
            /\ tags' = tags \cup {"send"}
            /\ UNCHANGED <<finished, status, rres, wres>>
    /\ UNCHANGED <<mode, cqueue, sbClose, readDone, sendMetadata, buf, flushed,
                   peerSent, peerClosed, delivered, yielded, eos, closeAt>>

\* The guard goes out of scope at the end of ShareCallHolder::call.
HolderDrop(t) ==
    /\ hpc[t] = "done"
    /\ DropCall(t)
    /\ hpc' = [hpc EXCEPT ![t] = "dropping"]
    /\ UNCHANGED <<hop, cvars>>

\* LockGuard::drop returns, and ShareCallHolder::call with it.
HolderReturn(t) ==
    /\ hpc[t] = "dropping"
    /\ DropRelease(t)
    /\ hop' = [hop EXCEPT ![t] = "none"]
    /\ hpc' = [hpc EXCEPT ![t] = "none"]
    /\ UNCHANGED cvars

(***************************************************************************)
(* The specifications                                                      *)
(***************************************************************************)

vars == <<lvars, evars, bvars, uvars, cvars, xvars, dvars, pvars, ovars,
         hvars>>

\* The executor part at rest (for the specifications of the other parts).
ExecRest == ExecInit /\ spawner = CqThread

\* A step of the lock part; the other parts stay as they are.
LockStep ==
    \E t \in Threads :
        \/ LockCall(t) /\ UNCHANGED <<evars, bvars, uvars, cvars, xvars, dvars, pvars, ovars, hvars>>
        \/ LockSwap(t) /\ UNCHANGED <<evars, bvars, uvars, cvars, xvars, dvars, pvars, ovars, hvars>>
        \/ LockCheck(t) /\ UNCHANGED <<evars, bvars, uvars, cvars, xvars, dvars, pvars, ovars, hvars>>
        \/ LockReturn(t) /\ UNCHANGED <<evars, bvars, uvars, cvars, xvars, dvars, pvars, ovars, hvars>>
        \/ LockRetry(t) /\ UNCHANGED <<evars, bvars, uvars, cvars, xvars, dvars, pvars, ovars, hvars>>
        \/ DropCall(t) /\ UNCHANGED <<evars, bvars, uvars, cvars, xvars, dvars, pvars, ovars, hvars>>
        \/ DropSwap(t) /\ UNCHANGED <<evars, bvars, uvars, cvars, xvars, dvars, pvars, ovars, hvars>>
        \/ DropCrit(t) /\ UNCHANGED <<evars, bvars, uvars, cvars, xvars, dvars, pvars, ovars, hvars>>
        \/ DropRelease(t) /\ UNCHANGED <<evars, bvars, uvars, cvars, xvars, dvars, pvars, ovars, hvars>>

\* A step of the executor part.
ExecStep ==
    \/ \E t \in ExecThreads :
        \/ PollCas(t) /\ UNCHANGED <<lvars, bvars, uvars, cvars, xvars, dvars, pvars, ovars, hvars>>
        \/ SelfNotify(t) /\ UNCHANGED <<lvars, bvars, uvars, cvars, xvars, dvars, pvars, ovars, hvars>>
        \/ PollReturnReady(t) /\ UNCHANGED <<lvars, bvars, uvars, cvars, xvars, dvars, pvars, ovars, hvars>>
        \/ PollReturnNotReady(t) /\ UNCHANGED <<lvars, bvars, uvars, cvars, xvars, dvars, pvars, ovars, hvars>>
        \/ PollStoreCompleted(t) /\ UNCHANGED <<lvars, bvars, uvars, cvars, xvars, dvars, pvars, ovars, hvars>>
        \/ PollTakeHandle(t) /\ UNCHANGED <<lvars, bvars, uvars, cvars, xvars, dvars, pvars, ovars, hvars>>
        \/ PollNotReady(t) /\ UNCHANGED <<lvars, bvars, uvars, cvars, xvars, dvars, pvars, ovars, hvars>>
        \/ NotifyCall(t) /\ UNCHANGED <<lvars, bvars, uvars, cvars, xvars, dvars, pvars, ovars, hvars>>
        \/ MarkNotified1(t) /\ UNCHANGED <<lvars, bvars, uvars, cvars, xvars, dvars, pvars, ovars, hvars>>
        \/ MarkNotified2(t) /\ UNCHANGED <<lvars, bvars, uvars, cvars, xvars, dvars, pvars, ovars, hvars>>
        \/ MarkNotified2Spurious(t) /\ UNCHANGED <<lvars, bvars, uvars, cvars, xvars, dvars, pvars, ovars, hvars>>
        \/ NotifySchedule(t) /\ UNCHANGED <<lvars, bvars, uvars, cvars, xvars, dvars, pvars, ovars, hvars>>
    \/ CqTakeSpawn /\ UNCHANGED <<lvars, bvars, uvars, cvars, xvars, dvars, pvars, ovars, hvars>>
    \/ CqTakeBatch /\ UNCHANGED <<lvars, bvars, uvars, cvars, xvars, dvars, pvars, ovars, hvars>>
    \/ CqPopWork /\ UNCHANGED <<lvars, bvars, uvars, cvars, xvars, dvars, pvars, ovars, hvars>>
    \/ CqBackToWait /\ UNCHANGED <<lvars, bvars, uvars, cvars, xvars, dvars, pvars, ovars, hvars>>

\* The call part at rest: an accepted call that nothing touches.
CallRest == CallInit /\ mode = "shared" /\ CqInit /\ DispatchRest /\ BufferInit /\ UnaryInit /\ BatchRest /\ OpsInit /\ HolderInit

\* A step of the call part: the peer, the native layer, the poller of the
\* completion queue and the handler that reads and writes.
CallStep ==
    \/ PeerSend /\ UNCHANGED <<lvars, evars, uvars, bvars, xvars, dvars, pvars, ovars, hvars>>
    \/ PeerHalfClose /\ UNCHANGED <<lvars, evars, uvars, bvars, xvars, dvars, pvars, ovars, hvars>>
    \/ NativeCompleteRecv /\ UNCHANGED <<lvars, evars, uvars, bvars, xvars, dvars, pvars, ovars, hvars>>
    \/ \E slot \in Slots : \E success \in BOOLEAN : \E statusOk \in BOOLEAN :
          NativeCompleteFinish(slot, success, statusOk) /\ UNCHANGED <<lvars, evars, uvars, bvars, xvars, dvars, pvars, ovars, hvars>>
    \/ PollQueue /\ UNCHANGED <<lvars, evars, uvars, bvars, xvars, dvars, pvars, ovars, hvars>>
    \/ StreamPoll /\ UNCHANGED <<lvars, evars, uvars, bvars, xvars, dvars, pvars, ovars, hvars>>
    \/ \E item \in 1..MaxItems : SinkStartSend(item) /\ UNCHANGED <<lvars, evars, uvars, bvars, xvars, dvars, pvars, ovars, hvars>>
    \/ SinkPollComplete /\ UNCHANGED <<lvars, evars, uvars, bvars, xvars, dvars, pvars, ovars, hvars>>
    \/ SinkClose /\ UNCHANGED <<lvars, evars, uvars, bvars, xvars, dvars, pvars, ovars, hvars>>

SpecLockInit == LockInit /\ ExecRest /\ CallRest
SpecExecInit == LockInit /\ ExecInit /\ CallRest
SpecCallInit == LockInit /\ ExecRest /\ CallInit /\ CqInit /\ DispatchRest /\ BufferInit /\ UnaryInit /\ BatchRest /\ OpsInit /\ HolderInit

SpecCall == SpecCallInit /\ [][CallStep]_vars

SpecLock == SpecLockInit /\ [][LockStep]_vars

SpecExec == SpecExecInit /\ [][ExecStep]_vars

\* Fair scheduling of the threads: a thread inside lock() or drop() keeps
\* running (WF of its steps); a swap that finds the flag clear again and again
\* eventually is the one that takes it (SF of the swaps); and a thread that
\* holds guards eventually drops them (WF of DropCall: the premise of the
\* liveness of lock()).
LockFairness ==
    \A t \in Threads :
        /\ SF_vars(LockSwap(t) /\ UNCHANGED <<evars, bvars, uvars, cvars, xvars, dvars, pvars, ovars, hvars>>)
        /\ SF_vars(DropSwap(t) /\ UNCHANGED <<evars, bvars, uvars, cvars, xvars, dvars, pvars, ovars, hvars>>)
        /\ WF_vars(LockCheck(t) /\ UNCHANGED <<evars, bvars, uvars, cvars, xvars, dvars, pvars, ovars, hvars>>)
        /\ WF_vars(LockReturn(t) /\ UNCHANGED <<evars, bvars, uvars, cvars, xvars, dvars, pvars, ovars, hvars>>)
        /\ WF_vars(LockRetry(t) /\ UNCHANGED <<evars, bvars, uvars, cvars, xvars, dvars, pvars, ovars, hvars>>)
        /\ WF_vars(DropCall(t) /\ UNCHANGED <<evars, bvars, uvars, cvars, xvars, dvars, pvars, ovars, hvars>>)
        /\ WF_vars(DropCrit(t) /\ UNCHANGED <<evars, bvars, uvars, cvars, xvars, dvars, pvars, ovars, hvars>>)
        /\ WF_vars(DropRelease(t) /\ UNCHANGED <<evars, bvars, uvars, cvars, xvars, dvars, pvars, ovars, hvars>>)

SpecLockFair == SpecLockInit /\ [][LockStep]_vars /\ LockFairness

\* Thread t is between a swap(true) that took the flag and its swap(false).
InFlag(t) == lpc[t] \in {"lk_crit", "lk_ret", "lk_retry", "dr_crit", "dr_rel"}

\* C1: a thread that holds one or more guards and calls lock() again does not
\* wait on itself: once it has the flag, the owner check lets it in (it never
\* takes the retry branch), the holder count grows by one and the owner stays.
C1_Reentrant ==
    [][\A t \in Threads :
          (lpc[t] = "lk_crit" /\ guards[t] > 0 /\ lpc'[t] # "lk_crit")
              => /\ lpc'[t] = "lk_ret"
                 /\ holders' = holders + 1
                 /\ holders = guards[t]
                 /\ owner' = t]_vars

\* A thread holds two nested guards: the second lock() returned.
C1_Witness ==
    \E t \in Threads : guards[t] >= 2 /\ holders >= 2 /\ owner = t /\ lpc[t] = "idle"

\* C2: while a thread holds a guard it is the recorded owner, no other thread
\* holds a guard and no other thread is returning from lock(); so two threads
\* never hold guards at the same time, and the drop of an inner guard lets
\* nobody in.
C2_Exclusion ==
    \A a \in Threads :
        guards[a] > 0 =>
            /\ owner = a
            /\ \A b \in Threads \ {a} : guards[b] = 0 /\ lpc[b] # "lk_ret"

\* Thread a locked twice and dropped the inner guard, still holds the outer
\* one, and thread b has found the lock owned and goes round its loop.
C2_Witness ==
    \E a \in Threads : \E b \in Threads \ {a} :
        /\ calls[a] >= 2 /\ guards[a] = 1 /\ lpc[a] = "idle"
        /\ lpc[b] = "lk_retry"

\* C3: the flag is set only while some thread is between its swap(true) and
\* its swap(false) (lock() and drop never leave it set), and under fair
\* scheduling, with owners that eventually drop their guards, every thread
\* that spins in lock() eventually acquires the lock.
C3_Liveness ==
    /\ [](lock => \E t \in Threads : InFlag(t))
    /\ \A t \in Threads : (lpc[t] = "lk_retry") ~> (lpc[t] = "lk_ret")

\* Thread b found the lock owned by a and went round the loop of lock(); a has
\* dropped its last guard since, and b's lock() has returned a guard.
C3_Witness ==
    \E a \in Threads : \E b \in Threads \ {a} :
        /\ spun[b] /\ lpc[b] = "idle" /\ guards[b] > 0
        /\ calls[a] > 0 /\ guards[a] = 0

\* The scheduling of the executor's threads: a thread inside poll() or
\* notify() keeps running (WF of its steps), the poll of the future returns
\* (SF: wakeups raised inside the poll do not go on for ever), a weak
\* compare-exchange does not fail spuriously for ever (SF of MarkNotified2),
\* the completion queue delivers a kicked tag (SF of CqTakeSpawn) and the
\* poller drains its work queue.  Nothing obliges a thread to wake the task.
ExecFairness ==
    /\ \A t \in ExecThreads :
        /\ WF_vars(PollCas(t) /\ UNCHANGED <<lvars, bvars, uvars, cvars, xvars, dvars, pvars, ovars, hvars>>)
        /\ SF_vars((PollReturnReady(t) \/ PollReturnNotReady(t)) /\ UNCHANGED <<lvars, bvars, uvars, cvars, xvars, dvars, pvars, ovars, hvars>>)
        /\ WF_vars(PollStoreCompleted(t) /\ UNCHANGED <<lvars, bvars, uvars, cvars, xvars, dvars, pvars, ovars, hvars>>)
        /\ WF_vars(PollTakeHandle(t) /\ UNCHANGED <<lvars, bvars, uvars, cvars, xvars, dvars, pvars, ovars, hvars>>)
        /\ WF_vars(PollNotReady(t) /\ UNCHANGED <<lvars, bvars, uvars, cvars, xvars, dvars, pvars, ovars, hvars>>)
        /\ WF_vars(MarkNotified1(t) /\ UNCHANGED <<lvars, bvars, uvars, cvars, xvars, dvars, pvars, ovars, hvars>>)
        /\ SF_vars(MarkNotified2(t) /\ UNCHANGED <<lvars, bvars, uvars, cvars, xvars, dvars, pvars, ovars, hvars>>)
        /\ WF_vars(NotifySchedule(t) /\ UNCHANGED <<lvars, bvars, uvars, cvars, xvars, dvars, pvars, ovars, hvars>>)
    /\ SF_vars(CqTakeSpawn /\ UNCHANGED <<lvars, bvars, uvars, cvars, xvars, dvars, pvars, ovars, hvars>>)
    /\ WF_vars(CqPopWork /\ UNCHANGED <<lvars, bvars, uvars, cvars, xvars, dvars, pvars, ovars, hvars>>)
    /\ WF_vars(CqBackToWait /\ UNCHANGED <<lvars, bvars, uvars, cvars, xvars, dvars, pvars, ovars, hvars>>)

SpecExecFair == SpecExecInit /\ [][ExecStep]_vars /\ ExecFairness

\* C4: at most one poll of the task's future is in progress at any time.
C4_SingleActivePoll ==
    \A t \in ExecThreads : \A u \in ExecThreads \ {t} : ~(InPoll(t) /\ InPoll(u))

\* The poller thread polls the future of a task spawned on another thread,
\* the future wakes its own task from inside that poll, and another thread is
\* waking the task too.
C4_Witness ==
    /\ spawner = "sp"
    /\ InPoll(CqThread) /\ npc[CqThread] = "mn2"
    /\ npc["ext"] = "mn2"

C6_NoSpuriousPoll ==
    [][(everPolled /\ \E t \in ExecThreads : ~InPoll(t) /\ InPoll(t)') => owed]_vars

\* The future was polled, returned NotReady and was not notified since: the
\* task is IDLE, nothing is scheduled and the poller waits.
C6_Witness ==
    /\ everPolled /\ ~owed /\ estate = IDLE
    /\ kicked = 0 /\ workq = 0 /\ cqpc = "wait"
    /\ \A t \in ExecThreads : ppc[t] = "none" /\ npc[t] = "none"


\* The read side alone with the peer, the native layer and the poller: the
\* sink is not used.
StreamStep ==
    \/ PeerSend /\ UNCHANGED <<lvars, evars, uvars, bvars, xvars, dvars, pvars, ovars, hvars>>
    \/ PeerHalfClose /\ UNCHANGED <<lvars, evars, uvars, bvars, xvars, dvars, pvars, ovars, hvars>>
    \/ NativeCompleteRecv /\ UNCHANGED <<lvars, evars, uvars, bvars, xvars, dvars, pvars, ovars, hvars>>
    \/ \E success \in BOOLEAN : \E statusOk \in BOOLEAN :
          NativeCompleteFinish("close", success, statusOk) /\ UNCHANGED <<lvars, evars, uvars, bvars, xvars, dvars, pvars, ovars, hvars>>
    \/ PollQueue /\ UNCHANGED <<lvars, evars, uvars, bvars, xvars, dvars, pvars, ovars, hvars>>
    \/ StreamPoll /\ UNCHANGED <<lvars, evars, uvars, bvars, xvars, dvars, pvars, ovars, hvars>>

\* The peer sends its messages and half-closes, the native layer completes a
\* receive batch that can complete, the poller dispatches the completed tags
\* and the task of the reader is polled again.  The terminal-close batch of a
\* stream that holds its own close_f completes in the end; nothing obliges the
\* call of a ShareCall to end while it is read.
StreamFairness ==
    /\ WF_vars(PeerSend /\ UNCHANGED <<lvars, evars, uvars, bvars, xvars, dvars, pvars, ovars, hvars>>)
    /\ WF_vars(PeerHalfClose /\ UNCHANGED <<lvars, evars, uvars, bvars, xvars, dvars, pvars, ovars, hvars>>)
    /\ WF_vars(NativeCompleteRecv /\ UNCHANGED <<lvars, evars, uvars, bvars, xvars, dvars, pvars, ovars, hvars>>)
    /\ WF_vars(PollQueue /\ UNCHANGED <<lvars, evars, uvars, bvars, xvars, dvars, pvars, ovars, hvars>>)
    /\ WF_vars(StreamPoll /\ UNCHANGED <<lvars, evars, uvars, bvars, xvars, dvars, pvars, ovars, hvars>>)
    /\ WF_vars(/\ mode = "own"
               /\ \E success \in BOOLEAN : \E statusOk \in BOOLEAN :
                     NativeCompleteFinish("close", success, statusOk)
               /\ UNCHANGED <<lvars, evars, uvars, bvars, xvars, dvars, pvars, ovars, hvars>>)

SpecStreamFair == SpecCallInit /\ [][StreamStep]_vars /\ StreamFairness

\* The tag of the future in the slot is with the native layer or in the
\* completion queue.
Outstanding(slot) ==
    \/ slot \in tags
    \/ \E i \in DOMAIN cqueue : cqueue[i].slot = slot

ErrorKinds == {"RpcFinished", "RpcFailure", "RemoteStopped", "FutureStale"}

C8_Original ==
    [][finished =>
          /\ tags' \subseteq tags
          /\ rres' # rres => rres' = <<"RpcFinished", status>>
          /\ wres' # wres => wres'[2] = "RpcFinished"]_vars

\* C9: the step of close() that submits the terminal status operation starts
\* from a state in which no send-message operation is outstanding and the
\* future of the last write is not pending.
C9_CloseAfterWrites ==
    [][(fut["flush"].st = "absent" /\ fut'["flush"].st # "absent")
          => ~Outstanding("send") /\ fut["send"].st # "pending"]_vars

\* close() was called while a write was outstanding: it returned NotReady and
\* submitted nothing.
C9_Witness ==
    /\ wres = <<"close", "NotReady">>
    /\ Outstanding("send")
    /\ fut["flush"].st = "absent" /\ ~Outstanding("flush")

ShutdownStep ==
    \/ PeerSend /\ UNCHANGED <<lvars, evars, uvars, bvars, xvars, dvars, pvars, ovars, hvars>>
    \/ PeerHalfClose /\ UNCHANGED <<lvars, evars, uvars, bvars, xvars, dvars, pvars, ovars, hvars>>
    \/ NativeCompleteRecv /\ UNCHANGED <<lvars, evars, uvars, bvars, xvars, dvars, pvars, ovars, hvars>>
    \/ \E slot \in Slots : \E success \in BOOLEAN :
          NativeCompleteFinish(slot, success, TRUE) /\ UNCHANGED <<lvars, evars, uvars, bvars, xvars, dvars, pvars, ovars, hvars>>
    \/ PollQueue /\ UNCHANGED <<lvars, evars, uvars, bvars, xvars, dvars, pvars, ovars, hvars>>
    \/ PollQueueTimeout /\ UNCHANGED <<lvars, evars, uvars, bvars, dvars, pvars, ovars, hvars>>
    \/ PollQueueShutdown /\ UNCHANGED <<lvars, evars, uvars, bvars, dvars, pvars, ovars, hvars>>
    \/ CqShutdown /\ UNCHANGED <<lvars, evars, uvars, bvars, dvars, pvars, ovars, hvars>>
    \/ StreamPoll /\ UNCHANGED <<lvars, evars, uvars, bvars, xvars, dvars, pvars, ovars, hvars>>
    \/ \E item \in 1..MaxItems : SinkStartSend(item) /\ UNCHANGED <<lvars, evars, uvars, bvars, xvars, dvars, pvars, ovars, hvars>>

\* The native layer completes every batch it was given (a receive once the
\* peer has sent or half-closed, which it does), and the poller thread runs.
ShutdownFairness ==
    /\ WF_vars(PeerSend /\ UNCHANGED <<lvars, evars, uvars, bvars, xvars, dvars, pvars, ovars, hvars>>)
    /\ WF_vars(PeerHalfClose /\ UNCHANGED <<lvars, evars, uvars, bvars, xvars, dvars, pvars, ovars, hvars>>)
    /\ WF_vars(NativeCompleteRecv /\ UNCHANGED <<lvars, evars, uvars, bvars, xvars, dvars, pvars, ovars, hvars>>)
    /\ \A slot \in Slots :
          WF_vars(/\ \E success \in BOOLEAN : NativeCompleteFinish(slot, success, TRUE)
                  /\ UNCHANGED <<lvars, evars, uvars, bvars, xvars, dvars, pvars, ovars, hvars>>)
    /\ WF_vars(PollQueue /\ UNCHANGED <<lvars, evars, uvars, bvars, xvars, dvars, pvars, ovars, hvars>>)
    /\ WF_vars(PollQueueShutdown /\ UNCHANGED <<lvars, evars, uvars, bvars, dvars, pvars, ovars, hvars>>)

SpecShutdownInit ==
    /\ LockInit /\ ExecRest /\ CallInit /\ CqInit /\ DispatchRest /\ BufferInit /\ UnaryInit /\ BatchRest /\ OpsInit /\ HolderInit
    /\ mode = "shared"

SpecShutdownFair == SpecShutdownInit /\ [][ShutdownStep]_vars /\ ShutdownFairness

StartStep ==
    \/ PeerSend /\ UNCHANGED <<lvars, evars, uvars, bvars, xvars, dvars, pvars, ovars, hvars>>
    \/ NativeCompleteRecv /\ UNCHANGED <<lvars, evars, uvars, bvars, xvars, dvars, pvars, ovars, hvars>>
    \/ \E slot \in Slots : \E success \in BOOLEAN :
          NativeCompleteFinish(slot, success, TRUE) /\ UNCHANGED <<lvars, evars, uvars, bvars, xvars, dvars, pvars, ovars, hvars>>
    \/ PollQueue /\ UNCHANGED <<lvars, evars, uvars, bvars, xvars, dvars, pvars, ovars, hvars>>
    \/ NativeRefuses /\ UNCHANGED <<lvars, evars, uvars, bvars, dvars, pvars, ovars, hvars>>
    \/ StreamPoll /\ UNCHANGED <<lvars, evars, uvars, bvars, xvars, dvars, pvars, ovars, hvars>>
    \/ \E item \in 1..MaxItems : SinkStartSend(item) /\ UNCHANGED <<lvars, evars, uvars, bvars, xvars, dvars, pvars, ovars, hvars>>
    \/ SinkClose /\ UNCHANGED <<lvars, evars, uvars, bvars, xvars, dvars, pvars, ovars, hvars>>

SpecStart == SpecShutdownInit /\ [][StartStep]_vars

\* C12: while the native layer refuses to start batches, an operation of the
\* handler leaves no new tag with the native layer and comes back with an
\* error value: the thread of the caller does not panic.
C12_Original ==
    [][callCode # "Ok" =>
          /\ tags' \subseteq tags
          /\ rres'[1] # "Panic"
          /\ wres'[2] # "Panic"]_vars


\* A request that is dispatched and a call that is handled while the
\* completion queue may be shut down.
QueueDownStep ==
    \/ CqShutdown /\ UNCHANGED <<lvars, evars, uvars, bvars, dvars, pvars, ovars, hvars>>
    \/ HandleStreamReq /\ UNCHANGED <<lvars, evars, uvars, bvars, pvars, ovars, hvars>>
    \/ HandleUnaryReq /\ UNCHANGED <<lvars, evars, uvars, bvars, pvars, ovars, hvars>>
    \/ \E hasData \in BOOLEAN : \E deOk \in BOOLEAN :
          UnaryHandle(hasData, deOk) /\ UNCHANGED <<lvars, evars, uvars, bvars, pvars, ovars, hvars>>
    \/ StreamDrop /\ UNCHANGED <<lvars, evars, uvars, bvars, pvars, ovars, hvars>>
    \/ \E slot \in Slots : \E success \in BOOLEAN :
          NativeCompleteFinish(slot, success, TRUE) /\ UNCHANGED <<lvars, evars, uvars, bvars, xvars, dvars, pvars, ovars, hvars>>
    \/ PollQueue /\ UNCHANGED <<lvars, evars, uvars, bvars, xvars, dvars, pvars, ovars, hvars>>
    \/ StreamPoll /\ UNCHANGED <<lvars, evars, uvars, bvars, xvars, dvars, pvars, ovars, hvars>>
    \/ \E item \in 1..MaxItems : SinkStartSend(item) /\ UNCHANGED <<lvars, evars, uvars, bvars, xvars, dvars, pvars, ovars, hvars>>
    \/ SinkClose /\ UNCHANGED <<lvars, evars, uvars, bvars, xvars, dvars, pvars, ovars, hvars>>

SpecQueueDownInit ==
    /\ LockInit /\ ExecRest /\ CallInit /\ CqInit /\ DispatchInit /\ BufferInit /\ UnaryInit /\ BatchRest /\ OpsInit /\ HolderInit
    /\ mode = "shared"

SpecQueueDown == SpecQueueDownInit /\ [][QueueDownStep]_vars

\* C13: once the completion queue has begun shutdown, no operation of Call
\* gives anything to the native layer (no batch is started, no status is sent
\* by abort, grpc_call_cancel is not called) and none panics; accepting a call
\* and abort return without invoking a handler.  (The receive that
\* handle_unary_req starts is not an operation of Call.)
C13_NoSubmitAfterShutdown ==
    [][shutdown =>
          /\ tags' \subseteq tags
          /\ nativeCancels' = nativeCancels
          /\ rres'[1] # "Panic" /\ wres'[2] # "Panic"
          /\ dpc # "unary_wait" => /\ dOps' = dOps
                                   /\ abortCode' = abortCode
                                   /\ handlerCalls' = handlerCalls
                                   /\ dpc' \in {dpc, "returned", "unary_wait"}]_vars

\* After the shutdown the request for an unknown method was dropped without
\* any native operation, a read of the handler came back with the
\* queue-shutdown error, and the drop of the stream called Call::cancel, which
\* did not reach the native layer.
C13_Witness ==
    /\ shutdown
    /\ method = "unknown" /\ dpc = "returned" /\ dOps = {}
    /\ rres = <<"QueueShutdown", "None">>
    /\ streamDropped /\ cancelCalls = 1 /\ nativeCancels = 0


\* C14: the dispatch of a request whose method has no handler, with the
\* completion queue open, accepts the call (start_server_side), sends a status
\* with code Unimplemented, and invokes no handler; no handler is ever invoked
\* for such a request.
C14_Unimplemented ==
    /\ [](method = "unknown" => handlerCalls = 0)
    /\ [][(method = "unknown" /\ dpc = "requested" /\ dpc' # dpc /\ ~shutdown)
            => /\ dOps' = {"start_server_side", "send_status"}
               /\ abortCode' = "Unimplemented"
               /\ dpc' = "returned"]_vars

\* The request for an unknown method was accepted and answered with
\* Unimplemented.
C14_Witness ==
    /\ method = "unknown" /\ dpc = "returned"
    /\ dOps = {"start_server_side", "send_status"}
    /\ abortCode = "Unimplemented"
    /\ handlerCalls = 0


\* A duplex call of the server whose peer may abort it while the handler
\* reads and writes.
AbortStep ==
    \/ PeerSend /\ UNCHANGED <<lvars, evars, uvars, bvars, xvars, dvars, pvars, ovars, hvars>>
    \/ NativeCompleteRecv /\ UNCHANGED <<lvars, evars, uvars, bvars, xvars, dvars, pvars, ovars, hvars>>
    \/ \E success \in BOOLEAN : PeerAbort(success) /\ UNCHANGED <<lvars, evars, uvars, bvars, dvars, pvars, ovars, hvars>>
    \/ \E success \in BOOLEAN :
          NativeCompleteFinish("send", success, TRUE) /\ UNCHANGED <<lvars, evars, uvars, bvars, xvars, dvars, pvars, ovars, hvars>>
    \/ PollQueue /\ UNCHANGED <<lvars, evars, uvars, bvars, xvars, dvars, pvars, ovars, hvars>>
    \/ StreamPoll /\ UNCHANGED <<lvars, evars, uvars, bvars, xvars, dvars, pvars, ovars, hvars>>
    \/ \E item \in 1..MaxItems : SinkStartSend(item) /\ UNCHANGED <<lvars, evars, uvars, bvars, xvars, dvars, pvars, ovars, hvars>>

SpecAbort == SpecShutdownInit /\ [][AbortStep]_vars

\* C15: after the peer has aborted the call, a poll of the read stream that
\* ends in an error returns the remote-stopped error, and a ShareCall that is
\* finished has recorded a status that is an error status.
C15_Original ==
    /\ [](aborted /\ finished => status \notin {"None", "Ok"})
    /\ [][(aborted /\ rres' # rres /\ rres'[1] \in ErrorKinds)
            => rres'[1] = "RemoteStopped"]_vars


\* The sink of a call with the write flags and the transport: nothing is read.
BufferStep ==
    \/ \E item \in 1..MaxItems : \E hint \in BOOLEAN :
          SinkStartSendFlags(item, hint) /\ UNCHANGED <<lvars, evars, uvars, xvars, dvars, pvars, ovars, hvars>>
    \/ SinkCloseFlush /\ UNCHANGED <<lvars, evars, uvars, xvars, dvars, pvars, ovars, hvars>>
    \/ PeerObservesCompletion /\ UNCHANGED <<lvars, evars, uvars, cvars, xvars, dvars, pvars, ovars, hvars>>
    \/ \E slot \in {"send", "flush"} : \E success \in BOOLEAN :
          NativeCompleteFinish(slot, success, TRUE)
              /\ UNCHANGED <<lvars, evars, uvars, bvars, xvars, dvars, pvars, ovars, hvars>>
    \/ PollQueue /\ UNCHANGED <<lvars, evars, uvars, bvars, xvars, dvars, pvars, ovars, hvars>>

SpecBuffer == SpecShutdownInit /\ [][BufferStep]_vars

DropStep ==
    \/ PeerSend /\ UNCHANGED <<lvars, evars, uvars, bvars, xvars, dvars, pvars, ovars, hvars>>
    \/ PeerHalfClose /\ UNCHANGED <<lvars, evars, uvars, bvars, xvars, dvars, pvars, ovars, hvars>>
    \/ NativeCompleteRecv /\ UNCHANGED <<lvars, evars, uvars, bvars, xvars, dvars, pvars, ovars, hvars>>
    \/ \E success \in BOOLEAN : \E statusOk \in BOOLEAN :
          NativeCompleteFinish("close", success, statusOk)
              /\ UNCHANGED <<lvars, evars, uvars, bvars, xvars, dvars, pvars, ovars, hvars>>
    \/ PollQueue /\ UNCHANGED <<lvars, evars, uvars, bvars, xvars, dvars, pvars, ovars, hvars>>
    \/ StreamPoll /\ UNCHANGED <<lvars, evars, uvars, bvars, xvars, dvars, pvars, ovars, hvars>>
    \/ StreamDrop /\ UNCHANGED <<lvars, evars, uvars, bvars, pvars, ovars, hvars>>

SpecDrop == SpecCallInit /\ [][DropStep]_vars

\* The close future of a stream that has one (a stream of a ShareCall has
\* none) is still pending.
ClosePending == mode = "own" /\ fut["close"].st = "pending"

UnaryStep ==
    \/ \E t \in 1..MaxResp : UnarySuccess(t) /\ UNCHANGED <<lvars, bvars, evars, xvars, dvars, pvars, ovars, hvars>>
    \/ UnaryFail("Internal") /\ UNCHANGED <<lvars, bvars, evars, xvars, dvars, pvars, ovars, hvars>>
    \/ UnarySinkResultPoll /\ UNCHANGED <<lvars, bvars, evars, xvars, dvars, pvars, ovars, hvars>>
    \/ ClientResolve /\ UNCHANGED <<lvars, bvars, evars, xvars, dvars, pvars, ovars, hvars>>
    \/ \E slot \in {"close", "flush"} : \E success \in BOOLEAN : \E statusOk \in BOOLEAN :
          NativeCompleteFinish(slot, success, statusOk)
              /\ UNCHANGED <<lvars, evars, uvars, bvars, xvars, dvars, pvars, ovars, hvars>>
    \/ PollQueue /\ UNCHANGED <<lvars, evars, uvars, bvars, xvars, dvars, pvars, ovars, hvars>>

SpecUnaryInit ==
    /\ LockInit /\ ExecRest /\ CallInit /\ CqInit /\ UnaryRest /\ BufferInit /\ UnaryInit /\ BatchRest /\ OpsInit /\ HolderInit
    /\ mode = "shared"

SpecUnary == SpecUnaryInit /\ [][UnaryStep]_vars

InMark(t) == npc[t] \in {"mn1", "mn2"}

\* The polls that are scheduled or about to be: the entries of the work
\* queue, the Spawn tags in the completion queue and the notifiers between
\* mark_notified and push_work or kick.
Scheduled == workq + kicked + Cardinality({t \in ExecThreads : npc[t] = "sched"})

\* C19: a step of mark_notified that finds the task POLLING pushes no work and
\* kicks nothing and does not return true; the step that leaves POLLING sets
\* NOTIFIED and returns false.  The poll loop whose poll returned NotReady and
\* that finds NOTIFIED keeps the state, goes round with init_state NOTIFIED,
\* and its next step polls the future again.
C19_WakeupWhilePolling ==
    /\ [][\A t \in ExecThreads :
            (InMark(t) /\ estate = POLLING /\ npc'[t] # npc[t])
                => /\ npc'[t] # "sched"
                   /\ workq' = workq /\ kicked' = kicked
                   /\ estate' \in {POLLING, NOTIFIED}
                   /\ estate' = NOTIFIED => npc[t] = "mn2" /\ npc'[t] = "none"]_vars
    /\ [][\A t \in ExecThreads :
            (ppc[t] = "p_nr" /\ estate = NOTIFIED /\ ppc'[t] # "p_nr")
                => /\ ppc'[t] = "p_cas" /\ initState'[t] = NOTIFIED
                   /\ estate' = NOTIFIED
                   /\ workq' = workq /\ kicked' = kicked]_vars
    /\ [][\A t \in ExecThreads :
            (ppc[t] = "p_cas" /\ initState[t] = NOTIFIED /\ estate = NOTIFIED
                 /\ handle /\ ppc'[t] # "p_cas")
                => InPoll(t)' /\ estate' = POLLING]_vars

\* The task was marked NOTIFIED while its future was polled; the poll has
\* returned NotReady and nothing is scheduled: the loop is about to observe
\* the mark.
C19_Witness ==
    /\ estate = NOTIFIED /\ owed
    /\ \E t \in ExecThreads : ppc[t] = "p_nr"
    /\ Scheduled = 0
    /\ \A t \in ExecThreads : npc[t] = "none"

InLoop(t) == ppc[t] \in {"p_cas", "p_fut", "p_nr", "p_ready", "p_take"}

\* What the step of a loop whose poll returned NotReady does.
NotReadyStep ==
    \A t \in ExecThreads :
        (ppc[t] = "p_nr" /\ ppc'[t] # "p_nr")
            => IF estate = POLLING
                   THEN estate' = IDLE /\ ppc'[t] = "none"
                   ELSE /\ estate = NOTIFIED /\ estate' = NOTIFIED
                        /\ ppc'[t] = "p_cas" /\ initState'[t] = NOTIFIED

\* A loop ends with the task IDLE or COMPLETED.
LoopEnd ==
    \A t \in ExecThreads :
        (InLoop(t) /\ ppc'[t] = "none") => estate' \in {IDLE, COMPLETED}

\* C21 as claimed: a poll that returns NotReady moves the task POLLING -> IDLE
\* and ends the loop, or finds NOTIFIED and goes round; while a loop runs the
\* state moves only POLLING -> NOTIFIED, NOTIFIED -> POLLING, POLLING -> IDLE
\* and POLLING -> COMPLETED (and IDLE -> POLLING at the start of the loop of
\* spawn), so that a loop visits Polling (Notified Polling)* and then Idle or
\* Completed.
C21_Original ==
    /\ [][NotReadyStep]_vars
    /\ [][LoopEnd]_vars
    /\ [][((\E t \in ExecThreads : InLoop(t)) /\ estate' # estate)
            => <<estate, estate'>> \in {<<IDLE, POLLING>>, <<POLLING, NOTIFIED>>,
                                        <<NOTIFIED, POLLING>>, <<POLLING, IDLE>>,
                                        <<POLLING, COMPLETED>>}]_vars

\* C21: as claimed, and a poll that returns Ready after the task was notified
\* during it moves the task NOTIFIED -> COMPLETED: a loop visits Polling
\* (Notified Polling)* and then Idle, Completed or Notified Completed.
C21_PollLoop ==
    /\ [][NotReadyStep]_vars
    /\ [][LoopEnd]_vars
    /\ [][((\E t \in ExecThreads : InLoop(t)) /\ estate' # estate)
            => \/ <<estate, estate'>> \in {<<IDLE, POLLING>>, <<POLLING, NOTIFIED>>,
                                           <<NOTIFIED, POLLING>>, <<POLLING, IDLE>>,
                                           <<POLLING, COMPLETED>>}
               \/ /\ <<estate, estate'>> = <<NOTIFIED, COMPLETED>>
                  /\ \E t \in ExecThreads : ppc[t] = "p_ready"]_vars

\* The task was notified during a poll that then returned Ready: it is
\* COMPLETED, the future is about to be released, and nothing was scheduled.
C21_Witness ==
    /\ estate = COMPLETED /\ owed
    /\ \E t \in ExecThreads : ppc[t] = "p_take"
    /\ workq = 0 /\ kicked = 0

\* C22: a poll that returned Ready or an error stores COMPLETED and then
\* takes the future out of the task; COMPLETED is never left; a step of
\* mark_notified that finds COMPLETED returns false and schedules nothing; a
\* poll() that finds COMPLETED returns without polling; the future is not
\* polled while the task is COMPLETED and no thread panics.
C22_CompletedTerminal ==
    /\ [][\A t \in ExecThreads :
            /\ (ppc[t] = "p_ready" /\ ppc'[t] # "p_ready")
                  => estate' = COMPLETED /\ ppc'[t] = "p_take"
            /\ (ppc[t] = "p_take" /\ ppc'[t] # "p_take") => ~handle']_vars
    /\ [][estate = COMPLETED => estate' = COMPLETED]_vars
    /\ [][\A t \in ExecThreads :
            (InMark(t) /\ estate = COMPLETED /\ npc'[t] # npc[t])
                => /\ npc'[t] = "none"
                   /\ workq' = workq /\ kicked' = kicked]_vars
    /\ [][\A t \in ExecThreads :
            (ppc[t] = "p_cas" /\ estate = COMPLETED /\ ppc'[t] # "p_cas")
                => ppc'[t] = "none" /\ everPolled' = everPolled]_vars
    /\ [](estate = COMPLETED => \A t \in ExecThreads : ~InPoll(t))
    /\ [](~handle => estate = COMPLETED)
    /\ [](~epanic)

\* The task completed and its future was released; a wakeup that arrived
\* afterwards returned, nothing is scheduled and the poller waits.
C22_Witness ==
    /\ estate = COMPLETED /\ ~handle /\ ~owed
    /\ \E t \in OtherThreads : npc[t] = "mn1"
    /\ workq = 0 /\ kicked = 0 /\ cqpc = "wait"

C24_Original ==
    \A t \in OtherThreads : InPoll(t) => (t = spawner /\ initState[t] = IDLE)

C26_Original ==
    /\ [][(~finished /\ finished')
            => /\ fut["close"].st = "ready"
               /\ status' # "None"
               /\ fut["close"].res.k = "Ok" => status' = "Ok"
               /\ fut["close"].res.k = "RpcFailure" => status' = "Failed"
               /\ fut["close"].res.k \notin {"Ok", "RpcFailure"} => status' # "Ok"]_vars
    /\ [][fut["close"].st = "pending" => finished' = finished /\ status' = status]_vars

\* C27: once the ShareCall is finished it stays finished and its recorded
\* status does not change, whatever the stream and the sink call afterwards.
C27_FinishedStable ==
    [][finished => finished' /\ status' = status]_vars

\* The call finished with the status of an RPC failure, and a later
\* operation of the sink has polled the close future again.
C27_Witness ==
    /\ finished /\ status = "Failed"
    /\ fut["close"].st = "stale" /\ fut["close"].nyield = 1
    /\ wres[2] = "FutureStale"

\* One completed batch and its resolution.
ResolveStep ==
    ResolveBatch /\ UNCHANGED <<lvars, evars, bvars, uvars, cvars, xvars, dvars, ovars, hvars>>

SpecResolveInit ==
    /\ LockInit /\ ExecRest /\ CallInit /\ CqInit /\ DispatchRest /\ BufferInit /\ UnaryInit /\ OpsInit /\ HolderInit
    /\ mode = "shared"
    /\ BatchInit

SpecResolve == SpecResolveInit /\ [][ResolveStep]_vars

\* The batch was resolved.
Resolved == bout # NoOut

\* C28: a Finish batch whose completion failed resolves to RemoteStopped;
\* otherwise, with a status that is not OK, to RpcFailure with that status
\* (its code and its decoded details); otherwise to Ok(None); recv_message is
\* never called for it.
C28_FinishResolution ==
    (Resolved /\ bty = "Finish")
        => /\ ~bout.took /\ bout.msg = 0
           /\ ~bsuccess => bout.k = "RemoteStopped"
           /\ (bsuccess /\ bctx.code # "Ok")
                 => /\ bout.k = "RpcFailure"
                    /\ bout.status = [code |-> bctx.code,
                                      details |-> Some(Utf8Lossy(bctx.details))]
           /\ (bsuccess /\ bctx.code = "Ok") => bout.k = "Ok"

\* A Finish batch completed with success, a status that is not OK, details
\* that are not valid UTF-8 and a message in its context: it resolved to the
\* failure with the status, and the message was left alone.
C28_Witness ==
    /\ bty = "Finish" /\ bsuccess /\ bctx.code = "Unavailable"
    /\ bctx.details = <<InvalidByte, ValidByte>> /\ bctx.msg = 1
    /\ bout.k = "RpcFailure" /\ bout.status.details = Some(<<Replacement, ValidByte>>)

\* C29: a CheckRead batch with a status that is not OK resolves to RpcFailure
\* with that status and recv_message is not called; with the status OK it
\* resolves to Ok with the message of the context.  A Read batch resolves to
\* Ok with the message of the context, Some(message) or None for a null
\* buffer, and never to an error.  (Both assert the success flag: a failed
\* completion panics and no result is set.)
C29_ReadResolution ==
    /\ (Resolved /\ bty = "CheckRead" /\ bsuccess)
          => IF bctx.code # "Ok"
                 THEN /\ bout.k = "RpcFailure" /\ ~bout.took /\ bout.msg = 0
                      /\ bout.status = [code |-> bctx.code,
                                        details |-> Some(Utf8Lossy(bctx.details))]
                 ELSE bout.k = "Ok" /\ bout.took /\ bout.msg = bctx.msg
    /\ (Resolved /\ bty = "Read" /\ bsuccess)
          => bout.k = "Ok" /\ bout.took /\ bout.msg = bctx.msg
    /\ (Resolved /\ bty \in {"CheckRead", "Read"} /\ ~bsuccess) => bout = PanicOut

\* A CheckRead batch with a message in its context and a status that is not
\* OK resolved to the failure, without the message.
C29_Witness ==
    /\ bty = "CheckRead" /\ bsuccess /\ bctx.code = "Internal" /\ bctx.msg = 2
    /\ bout.k = "RpcFailure" /\ bout.msg = 0 /\ ~bout.took

\* The read side in both modes, without fairness.
SpecStream == SpecCallInit /\ [][StreamStep]_vars

\* End-of-stream comes after read_done, after the half-close of the peer and
\* after all its messages.
EosAfterAll == eos => readDone /\ peerClosed /\ Len(yielded) = peerSent

\* C30 as claimed: end-of-stream is yielded only when read is done and the
\* close future has resolved; a poll that leaves read done and the close
\* future pending returns NotReady; and a resolved close future does not end
\* the stream before all messages were read.
C30_Original ==
    /\ [](eos => fut["close"].st \in {"ready", "stale"})
    /\ [][(readDone' /\ fut'["close"].st = "pending" /\ rres' # rres)
             => rres'[1] = "NotReady"]_vars
    /\ []EosAfterAll

\* C30: a stream that holds its close future yields end-of-stream only when
\* read is done and it has seen the close future resolve, and a poll that
\* leaves read done and the close future pending returns NotReady; the stream
\* of a ShareCall, which holds no close future, yields end-of-stream as soon
\* as read is done, while the close future of the call is still pending (once
\* that future holds a result the poll fails); in both, a resolved close
\* future does not end the stream before all messages were read.
C30_FinalCompletion ==
    /\ [][(~eos /\ eos')
             => /\ readDone'
                /\ rres' = <<"Eos", "None">>
                /\ mode = "own"
                      => /\ ~sbClose'
                         /\ fut'["close"].st = "stale"
                         /\ fut'["close"].res.k = "Ok"
                /\ mode = "shared" => fut["close"].st = "pending" /\ ~finished]_vars
    /\ [][(mode = "own" /\ readDone' /\ fut'["close"].st = "pending" /\ rres' # rres)
             => rres'[1] = "NotReady"]_vars
    /\ []EosAfterAll

\* The stream of a ShareCall has yielded all the messages and end-of-stream
\* while the close future of the call is pending.
C30_Witness ==
    /\ mode = "shared" /\ eos /\ Len(yielded) = MaxMsgs
    /\ fut["close"].st = "pending" /\ Outstanding("close")


\* A duplex call on the server with the operations it gives to the native
\* layer: the peer sends and may abort the call, and the handler reads the
\* stream and uses the sink.  A server receives no
\* status with the completion of a batch.
OpsStep ==
    \/ PeerSend /\ UNCHANGED <<lvars, evars, uvars, bvars, xvars, dvars, pvars, ovars, hvars>>
    \/ PeerHalfClose /\ UNCHANGED <<lvars, evars, uvars, bvars, xvars, dvars, pvars, ovars, hvars>>
    \/ NativeCompleteRecv /\ UNCHANGED <<lvars, evars, uvars, bvars, xvars, dvars, pvars, ovars, hvars>>
    \/ \E slot \in {"send", "flush"} : \E success \in BOOLEAN :
          NativeCompleteFinish(slot, success, TRUE)
              /\ UNCHANGED <<lvars, evars, uvars, bvars, xvars, dvars, pvars, ovars, hvars>>
    \/ \E success \in BOOLEAN :
          PeerAbort(success) /\ UNCHANGED <<lvars, evars, uvars, bvars, dvars, pvars, ovars, hvars>>
    \/ PollQueueOps /\ UNCHANGED <<lvars, evars, uvars, bvars, xvars, dvars, pvars, hvars>>
    \/ StreamPollOps /\ UNCHANGED <<lvars, evars, uvars, bvars, xvars, dvars, pvars, hvars>>
    \/ \E item \in 1..MaxItems :
          SinkStartSendOps(item) /\ UNCHANGED <<lvars, evars, uvars, bvars, xvars, dvars, pvars, hvars>>
    \/ SinkPollCompleteOps /\ UNCHANGED <<lvars, evars, uvars, bvars, xvars, dvars, pvars, hvars>>
    \/ SinkCloseOps /\ UNCHANGED <<lvars, evars, uvars, bvars, xvars, dvars, pvars, hvars>>
    \/ SinkFail /\ UNCHANGED <<lvars, evars, uvars, bvars, xvars, dvars, pvars, hvars>>

SpecOps == SpecShutdownInit /\ [][OpsStep]_vars

\* The operations of a kind that were started and whose future the poller
\* has not resolved yet.
OutstandingOps(slot) ==
    (IF slot = "msg" THEN recvOps ELSE SendOps) - resolvedOps[slot]

\* C31: a call has at most one send-message operation and at most one
\* receive-message operation that was started and is not resolved yet; a step
\* that starts the next receive (the next send) starts from a state in which
\* every earlier receive (send) is resolved.
C31_OneOutstanding ==
    /\ [](\A s \in {"msg", "send"} : OutstandingOps(s) \in {0, 1})
    /\ [][recvOps' > recvOps => OutstandingOps("msg") = 0]_vars
    /\ [][SendOps' > SendOps => OutstandingOps("send") = 0]_vars

\* A second send and a second receive were started, each after the first was
\* resolved, and both are outstanding at the same time.
C31_Witness ==
    /\ SendOps = 2 /\ recvOps = 2
    /\ OutstandingOps("send") = 1 /\ OutstandingOps("msg") = 1

\* start_send finds the call alive and the native layer ready to start an
\* operation (the failures of these are the matter of other properties).
SendPossible == fut["close"].st = "pending" /\ StartResult = "Ok"

\* C32: start_send that finds the previous write unresolved also after one
\* more poll of its future returns not-ready (the result that carries the
\* item back), starts no native operation and leaves the write buffer and
\* the send-metadata flag as they are; start_send that finds no write
\* outstanding (none was started, or poll_complete has taken the last, or its
\* future has resolved successfully) leaves the serialization of the item
\* alone in the buffer, starts exactly one send-message operation with that
\* buffer, and returns ready.
C32_Backpressure ==
    [][\A item \in 1..MaxItems :
          (SendPossible /\ SinkStartSendOps(item)) =>
              IF fut["send"].st = "pending"
                  THEN /\ wres' = <<"start_send", "NotReady">>
                       /\ sinkOps' = sinkOps /\ tags' = tags
                       /\ wbuf' = wbuf /\ buf' = buf
                       /\ sendMetadata' = sendMetadata
              ELSE IF fut["send"].st = "absent" \/ FutPollRes(fut["send"]).k = "Ok"
                  THEN /\ wres' = <<"start_send", "Ready">>
                       /\ wbuf' = Ser(item) /\ De(wbuf') = item
                       /\ sinkOps' = Append(sinkOps, SinkOp("send", sendMetadata, Ser(item)))
                       /\ tags' = tags \cup {"send"}
                       /\ fut'["send"] = Pending
              ELSE TRUE]_vars

\* The second item was refused while the first write was outstanding, and
\* the buffer still holds the first.
C32_Witness ==
    /\ wres = <<"start_send", "NotReady">>
    /\ SendOps = 1 /\ OutstandingOps("send") = 1
    /\ wbuf = Ser(buf) /\ buf # 0

\* C33: close() returns Ready only when every write that was started is
\* resolved, the status operation it started is resolved, and the close
\* future of the call has resolved and was taken by poll_finish; it passes
\* these in order: the status operation is started only when no write is
\* outstanding, and the close future is polled only when the status
\* operation is resolved; and the status operation is started at most once,
\* however often close() is polled (flush_f is held exactly from then on).
C33_CloseBarrier ==
    /\ [](wres = <<"close", "Ready">> =>
            /\ OutstandingOps("send") = 0 /\ fut["send"].st = "absent"
            /\ StatusOps = 1 /\ resolvedOps["flush"] = 1 /\ flushed
            /\ fut["close"].nset = 1 /\ fut["close"].st = "stale" /\ finished)
    /\ [][(SinkCloseOps /\ StatusOps' > StatusOps) =>
            OutstandingOps("send") = 0 /\ StatusOps = 0 /\ fut["flush"].st = "absent"]_vars
    /\ [][(SinkCloseOps /\ fut'["close"] # fut["close"]) =>
            flushed' /\ resolvedOps["flush"] = 1]_vars
    /\ [](StatusOps <= 1 /\ (fut["flush"].st # "absent" <=> StatusOps = 1))

\* close() has returned Ready on a sink that had sent all its messages, with
\* every operation resolved.
C33_Witness ==
    /\ wres = <<"close", "Ready">>
    /\ SendOps = MaxSends /\ resolvedOps["send"] = MaxSends
    /\ StatusOps = 1 /\ resolvedOps["flush"] = 1

\* C34: of the operations a server sink starts, the first one (a
\* send-message, or the status operation when nothing was sent) carries
\* send_metadata = true and every later one carries send_metadata = false.
C34_MetadataOnce ==
    [](\A i \in 1..Len(sinkOps) : sinkOps[i].sm = (i = 1))

\* Two messages were sent and the status operation was started: three
\* operations, the first a send-message.
C34_Witness ==
    /\ Len(sinkOps) = 3
    /\ sinkOps[1].op = "send" /\ sinkOps[2].op = "send" /\ sinkOps[3].op = "status"

\* C35: start_send on a server sink whose call's close future has resolved
\* (the peer ended the call; the result is not taken yet) fails with the
\* remote-stopped error, whether the close batch succeeded or not, starts no
\* native operation and leaves the buffer alone, and the ShareCall is
\* finished afterwards.
C35_RemoteStopped ==
    [][\A item \in 1..MaxItems :
          (fut["close"].st = "ready" /\ SinkStartSendOps(item)) =>
              /\ wres' = <<"start_send", "RemoteStopped">>
              /\ sinkOps' = sinkOps /\ tags' = tags /\ wbuf' = wbuf
              /\ fut'["send"] = fut["send"]
              /\ finished']_vars

\* The peer ended the call while the first write was outstanding, and the
\* next start_send failed with the remote-stopped error.
C35_Witness ==
    /\ aborted /\ finished
    /\ wres = <<"start_send", "RemoteStopped">>
    /\ SendOps = 1 /\ OutstandingOps("send") = 1

\* C36: the step that handles a unary or server-streaming request whose
\* payload does not deserialize, or that has no payload, does not panic and
\* does not invoke the handler: it returns, and with the completion queue
\* open it has sent a status with code Internal (with the queue shut down
\* nothing is sent, C13).
C36_DeserializeFailure ==
    [][\A hasData \in BOOLEAN : \A deOk \in BOOLEAN :
          (UnaryHandle(hasData, deOk) /\ (~hasData \/ ~deOk)) =>
              /\ dpc' = "returned"
              /\ handlerCalls' = handlerCalls
              /\ ~shutdown => /\ abortCode' = "Internal"
                              /\ "send_status" \in dOps']_vars

\* The request was received and accepted, its payload did not deserialize,
\* and the call was aborted with Internal; no handler has run.
C36_Witness ==
    /\ method = "unary" /\ dpc = "returned"
    /\ dOps = {"recv_message", "start_server_side", "send_status"}
    /\ abortCode = "Internal"
    /\ handlerCalls = 0

\* A step of the thread of one half: it calls ShareCallHolder::call with one
\* of its operations, and goes through lock(), the operation and the drop of
\* the guard.
HolderNext(t) ==
    \/ \E op \in HolderOps(t) :
          HolderCall(t, op) /\ UNCHANGED <<evars, bvars, uvars, xvars, dvars, pvars, ovars>>
    \/ LockSwap(t) /\ UNCHANGED <<evars, bvars, uvars, cvars, xvars, dvars, pvars, ovars, hvars>>
    \/ LockCheck(t) /\ UNCHANGED <<evars, bvars, uvars, cvars, xvars, dvars, pvars, ovars, hvars>>
    \/ LockReturn(t) /\ UNCHANGED <<evars, bvars, uvars, cvars, xvars, dvars, pvars, ovars, hvars>>
    \/ LockRetry(t) /\ UNCHANGED <<evars, bvars, uvars, cvars, xvars, dvars, pvars, ovars, hvars>>
    \/ HolderEnter(t) /\ UNCHANGED <<evars, bvars, uvars, xvars, dvars, pvars, ovars>>
    \/ HolderExit(t) /\ UNCHANGED <<evars, bvars, uvars, xvars, dvars, pvars, ovars>>
    \/ HolderDrop(t) /\ UNCHANGED <<evars, bvars, uvars, xvars, dvars, pvars, ovars>>
    \/ DropSwap(t) /\ UNCHANGED <<evars, bvars, uvars, cvars, xvars, dvars, pvars, ovars, hvars>>
    \/ DropCrit(t) /\ UNCHANGED <<evars, bvars, uvars, cvars, xvars, dvars, pvars, ovars, hvars>>
    \/ HolderReturn(t) /\ UNCHANGED <<evars, bvars, uvars, xvars, dvars, pvars, ovars>>

\* The two halves of a duplex call run their operations on the ShareCall from
\* two threads; the peer may end the call, and the poller resolves the close
\* future.
SharedStep ==
    \/ \E t \in Holders : HolderNext(t)
    \/ \E success \in BOOLEAN :
          PeerAbort(success) /\ UNCHANGED <<lvars, evars, uvars, bvars, dvars, pvars, ovars, hvars>>
    \/ PollQueue /\ UNCHANGED <<lvars, evars, uvars, bvars, xvars, dvars, pvars, ovars, hvars>>

\* A thread that has begun an operation keeps running (it need not begin
\* one): each step it can take is taken, and a swap that finds the flag clear
\* again and again eventually is the one that takes it (a swap that finds the
\* flag set changes nothing).
SharedFairness ==
    \A t \in Holders : SF_vars(hpc[t] # "none" /\ HolderNext(t))

SpecSharedFair == SpecShutdownInit /\ [][SharedStep]_vars /\ SharedFairness

\* C37: at most one thread at a time is inside an operation on the ShareCall,
\* and that thread holds the lock; the fields of the ShareCall change only in
\* a step of the thread that is inside; no thread panics or is left holding
\* the flag; and under fair scheduling every operation that a half has
\* started returns with its guard dropped, so neither half blocks the other
\* for ever.
C37_SharedCall ==
    /\ [](\A a \in Holders : hpc[a] = "inside" =>
              /\ owner = a /\ guards[a] > 0
              /\ \A b \in Holders \ {a} : hpc[b] \notin {"inside", "done"})
    /\ [][(finished' # finished \/ status' # status)
            => \E t \in Holders : hpc[t] = "inside" /\ hpc'[t] = "done" /\ owner = t]_vars
    /\ [](~lockPanic)
    /\ \A t \in Holders : (hpc[t] # "none") ~> (hpc[t] = "none" /\ guards[t] = 0)

\* The writer is inside poll_finish while the reader, which wants to run
\* check_alive, has found the lock owned and goes round the loop of lock().
C37_Witness ==
    /\ hpc[Writer] = "inside" /\ hop[Writer] = "poll_finish"
    /\ hop[Reader] = "check_alive" /\ lpc[Reader] = "lk_retry"
    /\ fut["close"].st = "ready"

\* C38: no thread panics in poll(): whenever a thread is at the
\* compare-exchange that starts a poll, the task is in the state the exchange
\* expects or COMPLETED (IDLE is expected exactly by the first poll, at spawn,
\* NOTIFIED by every dispatched wakeup and every re-poll), and the handle is
\* there when the exchange succeeds; whenever a poll has returned NotReady and
\* the thread is at the exchange back to IDLE, the task is POLLING or
\* NOTIFIED.
C38_NoUnexpectedState ==
    /\ [](~epanic /\ \A t \in ExecThreads : ppc[t] # "panicked")
    /\ [](\A t \in ExecThreads : ppc[t] = "p_cas" =>
              /\ estate \in {initState[t], COMPLETED}
              /\ estate = initState[t] => handle
              /\ estate # COMPLETED => (initState[t] = IDLE <=> ~everPolled)
              /\ estate # COMPLETED => (initState[t] = IDLE => t = spawner))
    /\ [](\A t \in ExecThreads : ppc[t] = "p_nr" => estate \in {POLLING, NOTIFIED})

\* The poller is about to start the poll of a dispatched Spawn tag and
\* finds the task NOTIFIED, while a thread that did not spawn the task is
\* inside mark_notified with another wakeup.
C38_Witness ==
    /\ spawner = "sp" /\ everPolled
    /\ ppc[CqThread] = "p_cas" /\ initState[CqThread] = NOTIFIED /\ estate = NOTIFIED
    /\ npc["ext"] = "mn2"

\* C39: at most one wakeup of the task is scheduled and not yet run (a work
\* queue entry, a Spawn tag, or one on its way there); a wakeup is scheduled
\* only by the exchange IDLE -> NOTIFIED and only when none is scheduled;
\* while it waits the task stays NOTIFIED and no poll runs; and it leaves the
\* queue only to the poller, which begins a poll that expects NOTIFIED.
C39_OneScheduledWakeup ==
    /\ [](workq + kicked <= 1 /\ Scheduled <= 1)
    /\ [][Scheduled' > Scheduled =>
            Scheduled = 0 /\ estate = IDLE /\ estate' = NOTIFIED]_vars
    /\ [](Scheduled = 1 =>
            estate = NOTIFIED /\ \A t \in ExecThreads : ppc[t] = "none")
    /\ [][Scheduled' < Scheduled =>
            /\ estate = NOTIFIED /\ estate' = NOTIFIED
            /\ ppc[CqThread] = "none" /\ ppc'[CqThread] = "p_cas"
            /\ initState'[CqThread] = NOTIFIED]_vars

\* The poller woke the task on its own thread: the task is NOTIFIED with one
\* entry in the work queue, and another thread is inside mark_notified.
C39_Witness ==
    /\ estate = NOTIFIED /\ workq = 1 /\ kicked = 0
    /\ npc["ext"] = "mn1"

\* The guards of thread t that are alive: those lock() has returned and that
\* are not dropped, the one lock() has registered and is about to return, and
\* the one whose drop has begun and has not yet taken it off the count.
LiveGuards(t) ==
    guards[t] + (IF lpc[t] = "lk_ret" THEN 1 ELSE 0)
              + (IF lpc[t] \in {"dr_spin", "dr_crit"} THEN 1 ELSE 0)

\* C40: the ownership record is present exactly when a guard is alive; when
\* it is present, the holder count is the number of live guards of the
\* recorded owner and no other thread has a live guard; the count never
\* underflows and the record is never missing in drop (no panic); the record
\* is cleared exactly by the step that takes the count to zero, and it is
\* written only by a thread that has the flag.
C40_Ownership ==
    /\ [](owner # NoOwner <=> \E t \in Threads : LiveGuards(t) > 0)
    /\ [](owner # NoOwner =>
            /\ holders = LiveGuards(owner) /\ holders > 0
            /\ \A t \in Threads \ {owner} : LiveGuards(t) = 0)
    /\ [](owner = NoOwner <=> holders = 0)
    /\ [](~lockPanic)
    /\ [][(owner # NoOwner /\ owner' = NoOwner) <=> (holders = 1 /\ holders' = 0)]_vars
    /\ [][(owner' # owner \/ holders' # holders) =>
            \E t \in Threads : lpc[t] \in {"lk_crit", "dr_crit"} /\ lpc'[t] # lpc[t]]_vars

\* A thread holds one guard and is dropping a second one, which is not yet
\* off the count, while another thread spins in lock().
C40_Witness ==
    \E a \in Threads : \E b \in Threads \ {a} :
        /\ owner = a /\ holders = 2 /\ guards[a] = 1 /\ lpc[a] = "dr_crit"
        /\ lpc[b] = "lk_spin"
====
